---------------------------- MODULE Spec2Model ----------------------------
(***************************************************************************)
(* Hevy-AI-Coach backend: the scheduler's two recurring jobs               *)
(* (app/scheduler.py), the on-demand briefing routes                       *)
(* (app/routes/briefing.py), the context aggregator                        *)
(* (app/services/aggregator.py) and the generation functions               *)
(* (app/services/ai_service.py), over the tables of app/models.py.         *)
(*                                                                         *)
(* Every await and every database round trip is a separate step, so that   *)
(* runs of the jobs and requests interleave the way separate workers do.   *)
(***************************************************************************)
EXTENDS Integers, Sequences, FiniteSets, TLC

VARIABLES
    briefings,  \* table morning_briefings
    weights,    \* table weight_entries
    job,        \* the executions of daily_briefing_job
    req,        \* the requests to /api/briefing/today and /regenerate
    reviews,    \* table workout_reviews
    hevy,       \* what the Hevy API holds for each subject
    rv,         \* the execution of workout_review_job
    agg,        \* one call of gather_user_context
    gen,        \* one call of a generation function
    users,      \* table users: the subjects that exist
    calc        \* one call of an analytics function

vars == <<briefings, weights, job, req, reviews, hevy, rv, agg, gen, users, calc>>

briefingVars == <<briefings, weights, job, req>>

reviewVars == <<reviews, hevy, rv>>

--------------------------------------------------------------------------
(* Bounds of the model *)

(* Subjects (table users).  u1 and u2 hold both credential sets, u3 holds  *)
(* Yazio credentials only.                                                 *)
Users == {"u1", "u2", "u3"}

UserOrder == <<"u1", "u2", "u3">>

hevy_api_key == [u \in Users |-> u # "u3"]

yazio_email == [u \in Users |-> TRUE]

yazio_password == [u \in Users |-> TRUE]

(* the subjects that send briefing requests *)
ReqUsers == {"u1", "u2"}

Jobs == {"job1", "job2"}

Reqs == {"req1"}

(* current_weight_kg as the nutrition profile reports it; 0 stands for a   *)
(* missing profile, a missing value or a value that is not positive.       *)
WeightValues == {0, 70, 71}

(* date.today(): every run and request of the model falls on one calendar *)
(* date; the tables start with the rows of the day before.                *)
Today == "today"

Yesterday == "yesterday"

Days == {Yesterday, Today}

--------------------------------------------------------------------------
(* Helpers *)

RECURSIVE SelectSeq2(_, _)
SelectSeq2(s, keep) ==
    IF s = <<>> THEN <<>>
    ELSE IF keep[Head(s)] THEN <<Head(s)>> \o SelectSeq2(Tail(s), keep)
         ELSE SelectSeq2(Tail(s), keep)

Range(s) == {s[i] : i \in DOMAIN s}

(* daily_briefing_job's selection: users with Hevy and Yazio credentials *)
ActiveBriefingUsers ==
    SelectSeq2(UserOrder,
               [u \in Users |-> /\ u \in users
                                /\ hevy_api_key[u] /\ yazio_email[u] /\ yazio_password[u]])

(* ForeignKey("users.id", ondelete="CASCADE") on the user_id of the three *)
(* derived tables: a row is inserted only for a subject that exists       *)
FkUser(u) == u \in users

(* a variant of the cascade that deletes no dependent row *)
CascadeOff(rows, u) == rows

(* cascade="all, delete-orphan" and ondelete="CASCADE": the rows of a      *)
(* table that are left when subject u is deleted                           *)
Cascade(rows, u) == {r \in rows : r.user_id # u}

(* db.query(MorningBriefing).filter(user_id == u, date == d).first() *)
BriefingOf(u, d) == {b \in briefings : b.user_id = u /\ b.date = d}

(* a variant of the key check that enforces nothing *)
UqUserDateOff(u, d) == TRUE

(* UniqueConstraint("user_id", "date", name="uq_user_date"): the insert of *)
(* a row for (u, d) commits only when no row holds that key.               *)
UqUserDate(u, d) == BriefingOf(u, d) = {}

MorningBriefing(u, d, data) == [user_id |-> u, date |-> d, briefing_data |-> data]

WeightOf(u, d) == {w \in weights : w.user_id = u /\ w.date = d}

(* a variant of the key check that enforces nothing *)
UqUserWeightDateOff(u, d) == TRUE

(* UniqueConstraint("user_id", "date", name="uq_user_weight_date") *)
UqUserWeightDate(u, d) == WeightOf(u, d) = {}

WeightEntry(u, d, kg) == [user_id |-> u, date |-> d, weight_kg |-> kg]

--------------------------------------------------------------------------
(* daily_briefing_job and _generate_for_user *)

JobIdle ==
    [pc |-> "idle", users |-> <<>>, idx |-> 0, today |-> "none", weight |-> 0,
     result |-> FALSE, success |-> 0, hit |-> FALSE, conflict |-> FALSE,
     crashed |-> FALSE, agg |-> 0, gen |-> 0, db |-> "none", paced |-> TRUE]

CurUser(j) == job[j].users[job[j].idx]

InCall(j) == job[j].idx \in DOMAIN job[j].users

(* the job opens its session (line 206) and selects the active users *)
JobStart(j) ==
    /\ job[j].pc = "idle"
    /\ job' = [job EXCEPT ![j] = [JobIdle EXCEPT !.pc = "loop",
                                                 !.db = "open",
                                                 !.users = ActiveBriefingUsers,
                                                 !.idx = 1]]
    /\ UNCHANGED <<briefings, weights, req, reviewVars, agg, gen, users, calc>>

(* the selection query raises: the job's except logs it, finally closes *)
JobSelectFails(j) ==
    /\ job[j].pc = "idle"
    /\ job' = [job EXCEPT ![j] = [JobIdle EXCEPT !.pc = "done", !.crashed = TRUE,
                                                 !.db = "closed"]]
    /\ UNCHANGED <<briefings, weights, req, reviewVars, agg, gen, users, calc>>

(* a variant of the lookup that never skips *)
GenLookupNoSkip(j) ==
    /\ job[j].pc = "loop"
    /\ InCall(j)
    /\ job' = [job EXCEPT ![j].today = Today,
                          ![j].pc = "gather"]
    /\ UNCHANGED <<briefings, weights, req, reviewVars, agg, gen, users, calc>>

(* _generate_for_user, lines 29-39: read the date, look the row up, skip   *)
(* with True when it exists                                                *)
GenLookup(j) ==
    /\ job[j].pc = "loop"
    /\ InCall(j)
    /\ LET existing == BriefingOf(CurUser(j), Today) IN
       job' = [job EXCEPT ![j].today = Today,
                          ![j].hit = (existing # {}),
                          ![j].result = (existing # {}),
                          ![j].pc = IF existing # {} THEN "returned" ELSE "gather"]
    /\ UNCHANGED <<briefings, weights, req, reviewVars, agg, gen, users, calc>>

(* a variant of the failing lookup in a job without its finally clause *)
GenLookupFailsNoFinally(j) ==
    /\ job[j].pc = "loop"
    /\ InCall(j)
    /\ job' = [job EXCEPT ![j].crashed = TRUE, ![j].pc = "done"]
    /\ UNCHANGED <<briefings, weights, req, reviewVars, agg, gen, users, calc>>

(* the lookup of lines 32-36 raises: it stands before the try of line 41,  *)
(* so the exception leaves _generate_for_user and the loop of              *)
(* daily_briefing_job, whose except (line 230) ends the run                *)
GenLookupFails(j) ==
    /\ job[j].pc = "loop"
    /\ InCall(j)
    /\ job' = [job EXCEPT ![j].crashed = TRUE, ![j].db = "closed", ![j].pc = "done"]
    /\ UNCHANGED <<briefings, weights, req, reviewVars, agg, gen, users, calc>>

(* the except of lines 76-79: rollback, log, return False *)
GenCaught(j) ==
    [job EXCEPT ![j].result = FALSE, ![j].weight = 0, ![j].pc = "returned"]

(* line 42: gather_user_context returns a context *)
GenGather(j) ==
    /\ job[j].pc = "gather"
    /\ \E w \in WeightValues :
         job' = [job EXCEPT ![j].weight = w, ![j].agg = @ + 1, ![j].pc = "weight"]
    /\ UNCHANGED <<briefings, weights, req, reviewVars, agg, gen, users, calc>>

GenGatherFails(j) ==
    /\ job[j].pc = "gather"
    /\ job' = [GenCaught(j) EXCEPT ![j].agg = @ + 1]
    /\ UNCHANGED <<briefings, weights, req, reviewVars, agg, gen, users, calc>>

(* lines 45-54: the weight of the profile and the lookup of today's entry *)
GenWeightLookup(j) ==
    /\ job[j].pc = "weight"
    /\ LET w == job[j].weight
           existing_w == WeightOf(CurUser(j), job[j].today) IN
       job' = [job EXCEPT ![j].pc = IF w > 0 /\ existing_w = {}
                                    THEN "wcommit" ELSE "generate"]
    /\ UNCHANGED <<briefings, weights, req, reviewVars, agg, gen, users, calc>>

GenWeightLookupFails(j) ==
    /\ job[j].pc = "weight"
    /\ job[j].weight > 0
    /\ job' = GenCaught(j)
    /\ UNCHANGED <<briefings, weights, req, reviewVars, agg, gen, users, calc>>

(* lines 55-59: add the entry and commit; a failed commit is rolled back   *)
(* and swallowed                                                           *)
GenWeightCommit(j) ==
    /\ job[j].pc = "wcommit"
    /\ \/ /\ UqUserWeightDate(CurUser(j), job[j].today)
          /\ FkUser(CurUser(j))
          /\ weights' = weights \cup
                 {WeightEntry(CurUser(j), job[j].today, job[j].weight)}
       \/ weights' = weights
    /\ job' = [job EXCEPT ![j].pc = "generate"]
    /\ UNCHANGED <<briefings, req, reviewVars, agg, gen, users, calc>>

(* lines 61-64: the generation call; the payload is named after its run *)
GenGenerate(j) ==
    /\ job[j].pc = "generate"
    /\ job' = [job EXCEPT ![j].gen = @ + 1, ![j].paced = FALSE, ![j].pc = "insert"]
    /\ UNCHANGED <<briefings, weights, req, reviewVars, agg, gen, users, calc>>

GenGenerateFails(j) ==
    /\ job[j].pc = "generate"
    /\ job' = [GenCaught(j) EXCEPT ![j].gen = @ + 1, ![j].paced = FALSE]
    /\ UNCHANGED <<briefings, weights, req, reviewVars, agg, gen, users, calc>>

(* lines 66-79: add the row and commit.  A commit that the unique key      *)
(* rejects raises into the except of line 76: rollback, return False.      *)
GenInsert(j) ==
    /\ job[j].pc = "insert"
    /\ IF UqUserDate(CurUser(j), job[j].today) /\ FkUser(CurUser(j))
       THEN /\ briefings' = briefings \cup
                   {MorningBriefing(CurUser(j), job[j].today, j)}
            /\ job' = [job EXCEPT ![j].result = TRUE, ![j].weight = 0,
                                  ![j].pc = "returned"]
       ELSE /\ briefings' = briefings
            /\ job' = [GenCaught(j) EXCEPT
                          ![j].conflict = ~UqUserDate(CurUser(j), job[j].today)]
    /\ UNCHANGED <<weights, req, reviewVars, agg, gen, users, calc>>

(* the commit fails for another reason than the key *)
GenInsertFails(j) ==
    /\ job[j].pc = "insert"
    /\ job' = GenCaught(j)
    /\ UNCHANGED <<briefings, weights, req, reviewVars, agg, gen, users, calc>>

(* daily_briefing_job, lines 222-226: count the success, sleep(1), go on *)
JobNext(j) ==
    /\ job[j].pc = "returned"
    /\ job' = [job EXCEPT ![j].success = IF job[j].result THEN @ + 1 ELSE @,
                          ![j].idx = @ + 1,
                          ![j].today = "none",
                          ![j].result = FALSE,
                          ![j].hit = FALSE,
                          ![j].conflict = FALSE,
                          ![j].agg = 0,
                          ![j].gen = 0,
                          ![j].paced = TRUE,
                          ![j].pc = "loop"]
    /\ UNCHANGED <<briefings, weights, req, reviewVars, agg, gen, users, calc>>

(* lines 228-233: the list is exhausted; summary, db.close() *)
JobFinish(j) ==
    /\ job[j].pc = "loop"
    /\ ~InCall(j)
    /\ job' = [job EXCEPT ![j].db = "closed", ![j].pc = "done"]
    /\ UNCHANGED <<briefings, weights, req, reviewVars, agg, gen, users, calc>>

--------------------------------------------------------------------------
(* routes/briefing.py: GET /today, POST /regenerate, _generate_and_save *)

ReqIdle == [pc |-> "idle", user |-> "u1", today |-> "none", status |-> "none", weight |-> 0]

(* get_todays_briefing, lines 88-103 *)
GetToday(r) ==
    /\ req[r].pc = "idle"
    /\ \E u \in ReqUsers :
         req' = [req EXCEPT ![r] =
                    IF BriefingOf(u, Today) # {}
                    THEN [req[r] EXCEPT !.pc = "done", !.user = u, !.status = "existing"]
                    ELSE [req[r] EXCEPT !.pc = "gs_gather", !.user = u]]
    /\ UNCHANGED <<briefings, weights, job, reviewVars, agg, gen, users, calc>>

(* regenerate_briefing, lines 116-128: delete today's row, commit *)
Regenerate(r) ==
    /\ req[r].pc = "idle"
    /\ \E u \in ReqUsers :
         /\ briefings' = briefings \ BriefingOf(u, Today)
         /\ req' = [req EXCEPT ![r] = [req[r] EXCEPT !.pc = "gs_gather", !.user = u]]
    /\ UNCHANGED <<weights, job, reviewVars, agg, gen, users, calc>>

(* _generate_and_save, lines 34-38: read the date, gather the context,     *)
(* which holds the current weight of the profile; no line of the function  *)
(* reads it                                                                *)
GsGather(r) ==
    /\ req[r].pc = "gs_gather"
    /\ \E w \in WeightValues :
         req' = [req EXCEPT ![r].today = Today, ![r].weight = w,
                            ![r].pc = "gs_generate"]
    /\ UNCHANGED <<briefings, weights, job, reviewVars, agg, gen, users, calc>>

(* lines 41-46 *)
GsGenerate(r) ==
    /\ req[r].pc = "gs_generate"
    /\ req' = [req EXCEPT ![r].pc = "gs_commit"]
    /\ UNCHANGED <<briefings, weights, job, reviewVars, agg, gen, users, calc>>

(* lines 49-59: add, commit; on an exception rollback and re-read *)
GsCommit(r) ==
    /\ req[r].pc = "gs_commit"
    /\ \/ /\ UqUserDate(req[r].user, req[r].today)
          /\ FkUser(req[r].user)
          /\ briefings' = briefings \cup
                 {MorningBriefing(req[r].user, req[r].today, r)}
          /\ req' = [req EXCEPT ![r].pc = "done", ![r].weight = 0,
                                 ![r].status = "created"]
       \/ /\ briefings' = briefings
          /\ req' = [req EXCEPT ![r].pc = "gs_reread"]
    /\ UNCHANGED <<weights, job, reviewVars, agg, gen, users, calc>>

(* lines 60-70: return the row that exists now, or HTTP 500 *)
GsReread(r) ==
    /\ req[r].pc = "gs_reread"
    /\ req' = [req EXCEPT ![r].pc = "done", ![r].weight = 0,
                          ![r].status = IF BriefingOf(req[r].user, req[r].today) # {}
                                        THEN "existing" ELSE "http500"]
    /\ UNCHANGED <<briefings, weights, job, reviewVars, agg, gen, users, calc>>

(* the next request on the same connection *)
ReqNext(r) ==
    /\ req[r].pc = "done"
    /\ req' = [req EXCEPT ![r] = ReqIdle]
    /\ UNCHANGED <<briefings, weights, job, reviewVars, agg, gen, users, calc>>

--------------------------------------------------------------------------
(* Initial values *)

NoAgg == [pc |-> "off"]

NoGen == [pc |-> "off"]

NoCalc == [pc |-> "off"]

(* the tables as the day before left them *)
InitBriefings == {MorningBriefing(u, Yesterday, "old") : u \in Range(ActiveBriefingUsers)}

InitWeights == {WeightEntry("u1", Yesterday, 70)}

--------------------------------------------------------------------------
(* The Hevy adapter (services/hevy_service.py) and table workout_reviews *)

MaxSessions == 4

MaxRuns == 2

MaxOtherSessions == 2

(* max_new_reviews: int = 3 *)
DefaultMaxNewReviews == 3

(* fetch_recent_workouts(api_key, count=20) *)
FetchCount == 20

Min(a, b) == IF a < b THEN a ELSE b

(* dict.get(key, default) *)
Get(d, key, default) == IF key \in DOMAIN d THEN d[key] ELSE default

(* the k-th most recent session as the Hevy API returns it *)
RawWorkout(k) ==
    [id |-> ToString(k),
     title |-> IF k % 2 = 1 THEN "Push" ELSE "Pull",
     start_time |-> MaxSessions + 1 - k]

(* a variant of the normalisation that keeps the external id *)
SimplifyWorkoutKeepId(w) ==
    [id |-> Get(w, "id", ""),
     title |-> Get(w, "title", "Workout"),
     start_time |-> Get(w, "start_time", "")]

(* _simplify_workout, lines 113-119: the dict it returns holds title,      *)
(* start_time, end_time, duration_min and exercises, and no id             *)
SimplifyWorkout(w) ==
    [title |-> Get(w, "title", "Workout"),
     start_time |-> Get(w, "start_time", "")]

(* fetch_recent_workouts, lines 55-66, on a successful response *)
FetchRecentWorkouts(u, count) ==
    [k \in 1..Min(Len(hevy[u]), count) |-> SimplifyWorkout(hevy[u][k])]

(* db.query(WorkoutReview).filter(user_id == u, hevy_workout_id == id) *)
ReviewOf(u, id) == {r \in reviews : r.user_id = u /\ r.hevy_workout_id = id}

(* a variant of the existence check that never finds a row *)
AlreadyReviewedNever(u, id) == FALSE

(* _generate_workout_review_for_user, lines 117-123 *)
AlreadyReviewed(u, id) == ReviewOf(u, id) # {}

(* UniqueConstraint("user_id", "hevy_workout_id", name="uq_user_workout") *)
UqUserWorkout(u, id) == ReviewOf(u, id) = {}

(* what the memory lists keep of a row: the row its payloads come from *)
MemoryOf(r) ==
    [user_id |-> r.user_id, hevy_workout_id |-> r.hevy_workout_id,
     workout_date |-> r.workout_date]

RECURSIVE TopByDate(_, _)
(* .order_by(workout_date.desc()).limit(n) *)
TopByDate(rows, n) ==
    IF n = 0 \/ rows = {} THEN <<>>
    ELSE LET top == CHOOSE r \in rows : \A q \in rows : q.workout_date <= r.workout_date
         IN <<MemoryOf(top)>> \o TopByDate(rows \ {top}, n - 1)

(* a variant of the memory query without the filter on the subject *)
PreviousReviewsAnyUser(u, name) ==
    TopByDate({r \in reviews : r.workout_name = name}, 3)

(* lines 139-148: the last 3 reviews of the subject with this workout name *)
PreviousReviews(u, name) ==
    TopByDate({r \in reviews : r.user_id = u /\ r.workout_name = name}, 3)

(* workout_review_job's selection: users with a Hevy key *)
ActiveReviewUsers ==
    SelectSeq2(UserOrder, [u \in Users |-> u \in users /\ hevy_api_key[u]])

(* the "hevy" entry of the context: the fetched list, or None *)
Context(h) == [hevy_ok |-> TRUE, hevy |-> h]

NoContext == [hevy_ok |-> FALSE, hevy |-> <<>>]

RvIdle ==
    [pc |-> "idle", run |-> 0, users |-> <<>>, uidx |-> 0, workouts |-> <<>>,
     i |-> 0, generated |-> 0, name |-> "", dt |-> 0,
     memory |-> <<>>, ctx |-> NoContext, review |-> <<>>, tips |-> <<>>,
     skips |-> 0, calls |-> 0, fetched |-> FALSE, failed |-> FALSE,
     crashed |-> FALSE, db |-> "none", paced |-> TRUE, made |-> <<>>,
     tried |-> 0]

RvUser == rv.users[rv.uidx]

RvWorkout == rv.workouts[rv.i]

RvHevyId == Get(RvWorkout, "id", "")

(* workout_review_job, lines 243-253: open the session, select the users *)
RvJobStart ==
    /\ rv.pc \in {"idle", "done"}
    /\ rv' = [RvIdle EXCEPT !.pc = "user", !.run = Min(rv.run + 1, MaxRuns),
                            !.users = ActiveReviewUsers, !.uidx = 1,
                            !.db = "open"]
    /\ UNCHANGED <<briefingVars, reviews, hevy, agg, gen, users, calc>>

(* the selection raises: except of line 262, finally of line 264 *)
RvSelectFails ==
    /\ rv.pc \in {"idle", "done"}
    /\ rv' = [RvIdle EXCEPT !.pc = "done", !.run = Min(rv.run + 1, MaxRuns),
                            !.crashed = TRUE, !.db = "closed"]
    /\ UNCHANGED <<briefingVars, reviews, hevy, agg, gen, users, calc>>

(* what the call of one subject starts from *)
RvEnter(workouts) ==
    [rv EXCEPT !.workouts = workouts, !.i = 1, !.generated = 0, !.skips = 0,
               !.made = <<>>, !.tried = 0,
               !.calls = 0, !.fetched = TRUE, !.failed = FALSE,
               !.pc = IF DOMAIN workouts = {} THEN "userdone" ELSE "loop"]

(* _generate_workout_review_for_user, lines 96-109, the adapter answering *)
RvFetch ==
    /\ rv.pc = "user"
    /\ rv.uidx \in DOMAIN rv.users
    /\ rv' = IF hevy_api_key[RvUser]
             THEN RvEnter(FetchRecentWorkouts(RvUser, FetchCount))
             ELSE [rv EXCEPT !.pc = "userdone"]
    /\ UNCHANGED <<briefingVars, reviews, hevy, agg, gen, users, calc>>

(* lines 99-104: decrypt_value or the adapter raises, or the adapter       *)
(* returns None (line 106): the call returns 0                             *)
RvFetchFails ==
    /\ rv.pc = "user"
    /\ rv.uidx \in DOMAIN rv.users
    /\ rv' = [rv EXCEPT !.workouts = <<>>, !.generated = 0, !.fetched = FALSE,
                        !.pc = "userdone"]
    /\ UNCHANGED <<briefingVars, reviews, hevy, agg, gen, users, calc>>

(* the same lines over an adapter result that carries the external ids,    *)
(* as the Hevy API sends them                                              *)
RvFetchWithIds ==
    /\ rv.pc = "user"
    /\ rv.uidx \in DOMAIN rv.users
    /\ rv' = IF hevy_api_key[RvUser]
             THEN RvEnter(SubSeq(hevy[RvUser], 1, Min(Len(hevy[RvUser]), FetchCount)))
             ELSE [rv EXCEPT !.pc = "userdone"]
    /\ UNCHANGED <<briefingVars, reviews, hevy, agg, gen, users, calc>>

(* lines 111-127: the head of the loop over the fetched sessions *)
RvLoop ==
    /\ rv.pc = "loop"
    /\ rv' =
         IF rv.i \notin DOMAIN rv.workouts
         THEN [rv EXCEPT !.pc = "userdone"]                      \* line 196
         ELSE IF RvHevyId = ""
         THEN [rv EXCEPT !.i = @ + 1]                            \* line 114
         ELSE IF AlreadyReviewed(RvUser, RvHevyId)
         THEN [rv EXCEPT !.i = @ + 1, !.skips = @ + 1]           \* line 123
         ELSE IF rv.generated >= DefaultMaxNewReviews
         THEN [rv EXCEPT !.pc = "userdone"]                      \* line 127
         ELSE [rv EXCEPT !.pc = "memory"]
    /\ UNCHANGED <<briefingVars, reviews, hevy, agg, gen, users, calc>>

(* an exception that leaves _generate_workout_review_for_user: it leaves   *)
(* the loop of workout_review_job too, whose except (line 262) ends the    *)
(* run                                                                     *)
RvCrash == [rv EXCEPT !.crashed = TRUE, !.db = "closed", !.pc = "done"]

(* the query of lines 117-121 raises; it stands outside the try of 152 *)
RvLookupFails ==
    /\ rv.pc = "loop"
    /\ rv.i \in DOMAIN rv.workouts
    /\ RvHevyId # ""
    /\ rv' = RvCrash
    /\ UNCHANGED <<briefingVars, reviews, hevy, agg, gen, users, calc>>

(* lines 129-150: name, date and the coaching memory *)
RvMemory ==
    /\ rv.pc = "memory"
    /\ LET name == Get(RvWorkout, "title", "Workout") IN
       rv' = [rv EXCEPT !.name = name,
                        !.dt = Get(RvWorkout, "start_time", ""),
                        !.memory = PreviousReviews(RvUser, name),
                        !.pc = "gather"]
    /\ UNCHANGED <<briefingVars, reviews, hevy, agg, gen, users, calc>>

(* the query of lines 139-148 raises; it stands outside the try of 152 *)
RvMemoryFails ==
    /\ rv.pc = "memory"
    /\ rv' = RvCrash
    /\ UNCHANGED <<briefingVars, reviews, hevy, agg, gen, users, calc>>

(* the except of lines 189-191: rollback, log; then the sleep of line 194 *)
RvCaught == [rv EXCEPT !.failed = TRUE, !.pc = "sleep"]

(* line 154: gather_user_context fetches the sessions again, normalised *)
RvGather ==
    /\ rv.pc = "gather"
    /\ \E ok \in BOOLEAN :
         rv' = [rv EXCEPT !.ctx = IF ok THEN Context(FetchRecentWorkouts(RvUser, FetchCount))
                                        ELSE NoContext,
                          !.pc = "review"]
    /\ UNCHANGED <<briefingVars, reviews, hevy, agg, gen, users, calc>>

RvGatherFails ==
    /\ rv.pc = "gather"
    /\ rv' = RvCaught
    /\ UNCHANGED <<briefingVars, reviews, hevy, agg, gen, users, calc>>

(* ai_service.py, _build_user_message, lines 252-254: the request lists    *)
(* hevy_data and names its Workout 1, the most recent, as the session to   *)
(* analyse; there is none when hevy_data is empty or None                  *)
AnalysedSession(hevy_data) == IF hevy_data = <<>> THEN 0 ELSE 1

(* lines 158-163: generate_session_review over context["hevy"]; tried      *)
(* counts the sessions of the call for which generation was invoked        *)
RvReview ==
    /\ rv.pc = "review"
    /\ rv' = [rv EXCEPT !.review = [kind |-> "review",
                                    analysed |-> AnalysedSession(rv.ctx.hevy)],
                        !.tried = @ + 1,
                        !.calls = @ + 1, !.paced = FALSE, !.pc = "tips"]
    /\ UNCHANGED <<briefingVars, reviews, hevy, agg, gen, users, calc>>

RvReviewFails ==
    /\ rv.pc = "review"
    /\ rv' = [RvCaught EXCEPT !.tried = @ + 1, !.calls = @ + 1, !.paced = FALSE]
    /\ UNCHANGED <<briefingVars, reviews, hevy, agg, gen, users, calc>>

(* lines 166-172: generate_workout_tips over workouts and workout_index=i *)
RvTips ==
    /\ rv.pc = "tips"
    /\ rv' = [rv EXCEPT !.tips = [kind |-> "tips", index |-> rv.i],
                        !.calls = @ + 1, !.paced = FALSE, !.pc = "insert"]
    /\ UNCHANGED <<briefingVars, reviews, hevy, agg, gen, users, calc>>

RvTipsFails ==
    /\ rv.pc = "tips"
    /\ rv' = [RvCaught EXCEPT !.calls = @ + 1, !.paced = FALSE]
    /\ UNCHANGED <<briefingVars, reviews, hevy, agg, gen, users, calc>>

WorkoutReview(u, id, name, dt, review, tips) ==
    [user_id |-> u, hevy_workout_id |-> id, workout_name |-> name,
     workout_date |-> dt, review_data |-> review, tips_data |-> tips,
     is_read |-> FALSE]

(* a variant of the insert that adds the row without committing it *)
RvInsertNoCommit ==
    /\ rv.pc = "insert"
    /\ rv' = [rv EXCEPT !.generated = @ + 1, !.made = Append(@, rv.i),
                        !.pc = "sleep"]
    /\ UNCHANGED <<briefingVars, reviews, hevy, agg, gen, users, calc>>

(* lines 175-187: add the row, commit, count it *)
RvInsert ==
    /\ rv.pc = "insert"
    /\ IF UqUserWorkout(RvUser, RvHevyId) /\ FkUser(RvUser)
       THEN /\ reviews' = reviews \cup
                   {WorkoutReview(RvUser, RvHevyId, rv.name, rv.dt, rv.review, rv.tips)}
            /\ rv' = [rv EXCEPT !.generated = @ + 1, !.made = Append(@, rv.i),
                                !.pc = "sleep"]
       ELSE /\ reviews' = reviews
            /\ rv' = RvCaught
    /\ UNCHANGED <<briefingVars, hevy, agg, gen, users, calc>>

RvInsertFails ==
    /\ rv.pc = "insert"
    /\ rv' = RvCaught
    /\ UNCHANGED <<briefingVars, reviews, hevy, agg, gen, users, calc>>

(* line 194: sleep(2), then the next session *)
RvSleep ==
    /\ rv.pc = "sleep"
    /\ rv' = [rv EXCEPT !.i = @ + 1, !.name = "", !.dt = 0, !.memory = <<>>,
                        !.paced = TRUE,
                        !.ctx = NoContext, !.review = <<>>, !.tips = <<>>,
                        !.pc = "loop"]
    /\ UNCHANGED <<briefingVars, reviews, hevy, agg, gen, users, calc>>

(* workout_review_job, lines 255-258: the count goes into the log line of   *)
(* the run; sleep(2) when the call created a row; go to the next subject   *)
RvUserDone ==
    /\ rv.pc = "userdone"
    /\ rv' = [rv EXCEPT !.uidx = @ + 1, !.workouts = <<>>, !.i = 0,
                        !.paced = (rv.paced \/ rv.generated > 0),
                        !.made = <<>>, !.tried = 0,
                        !.generated = 0, !.skips = 0, !.calls = 0,
                        !.fetched = FALSE, !.failed = FALSE, !.pc = "user"]
    /\ UNCHANGED <<briefingVars, reviews, hevy, agg, gen, users, calc>>

(* lines 260-265: the list is exhausted; summary, db.close() *)
RvJobDone ==
    /\ rv.pc = "user"
    /\ rv.uidx \notin DOMAIN rv.users
    /\ rv' = [rv EXCEPT !.db = "closed", !.pc = "done"]
    /\ UNCHANGED <<briefingVars, reviews, hevy, agg, gen, users, calc>>

(* the sessions each Hevy account holds, most recent first: the account of *)
(* the first subject holds up to MaxSessions, the others up to             *)
(* MaxOtherSessions                                                        *)
HevyAccounts ==
    {h \in [Users -> {[k \in 1..n |-> RawWorkout(k)] : n \in 0..MaxSessions}] :
        \A u \in Users :
            /\ ~hevy_api_key[u] => h[u] = <<>>
            /\ u # UserOrder[1] => Len(h[u]) <= MaxOtherSessions}

InitReview ==
    /\ users = Users
    /\ calc = NoCalc
    /\ briefings = InitBriefings
    /\ weights = InitWeights
    /\ job = [j \in Jobs |-> JobIdle]
    /\ req = [r \in Reqs |-> ReqIdle]
    /\ reviews = {}
    /\ hevy \in HevyAccounts
    /\ rv = RvIdle
    /\ agg = NoAgg
    /\ gen = NoGen

(* an account whose sessions all carry one workout name *)
MaxSameName == 5

RawPush(k) == [RawWorkout(k) EXCEPT !.title = "Push"]

InitMemory ==
    /\ users = Users
    /\ calc = NoCalc
    /\ briefings = InitBriefings
    /\ weights = InitWeights
    /\ job = [j \in Jobs |-> JobIdle]
    /\ req = [r \in Reqs |-> ReqIdle]
    /\ reviews = {}
    /\ hevy \in {h \in [Users -> {[k \in 1..n |-> RawPush(k)] : n \in 0..MaxSameName}] :
                    /\ Len(h[UserOrder[1]]) \in {1, MaxSameName}
                    /\ \A u \in Users \ {UserOrder[1]} :
                           Len(h[u]) = IF hevy_api_key[u] THEN 1 ELSE 0}
    /\ rv = RvIdle
    /\ agg = NoAgg
    /\ gen = NoGen

(* the body of the loop, over an adapter result that carries the ids *)
NextReview ==
    \/ RvJobStart
    \/ RvSelectFails
    \/ RvFetchWithIds
    \/ RvFetchFails
    \/ RvLoop
    \/ RvLookupFails
    \/ RvMemory
    \/ RvMemoryFails
    \/ RvGather
    \/ RvGatherFails
    \/ RvReview
    \/ RvReviewFails
    \/ RvTips
    \/ RvTipsFails
    \/ RvInsert
    \/ RvInsertFails
    \/ RvSleep
    \/ RvUserDone
    \/ RvJobDone

SpecReview == InitReview /\ [][NextReview]_vars

SpecMemory == InitMemory /\ [][NextReview]_vars

(* the job over the adapter as it is: no fetched session carries an id, so *)
(* the loop never gets past line 114 and the steps of the body never fire  *)
NextDetect ==
    \/ RvJobStart
    \/ RvSelectFails
    \/ RvFetch
    \/ RvFetchFails
    \/ RvLoop
    \/ RvUserDone
    \/ RvJobDone

SpecDetect == InitReview /\ [][NextDetect]_vars

(* the runs in which the adapter answers and nothing fails *)
NextDetectStable ==
    \/ RvJobStart
    \/ RvFetch
    \/ RvLoop
    \/ RvUserDone
    \/ RvJobDone

LiveDetect == InitReview /\ [][NextDetectStable]_vars /\ WF_vars(NextDetectStable)

--------------------------------------------------------------------------

Init ==
    /\ users = Users
    /\ calc = NoCalc
    /\ briefings = InitBriefings
    /\ weights = InitWeights
    /\ job = [j \in Jobs |-> JobIdle]
    /\ req = [r \in Reqs |-> ReqIdle]
    /\ reviews = {}
    /\ hevy = [u \in Users |-> <<>>]
    /\ rv = RvIdle
    /\ agg = NoAgg
    /\ gen = NoGen

Next ==
    \/ \E j \in Jobs : JobStart(j)
    \/ \E j \in Jobs : JobSelectFails(j)
    \/ \E j \in Jobs : GenLookup(j)
    \/ \E j \in Jobs : GenLookupFails(j)
    \/ \E j \in Jobs : GenGather(j)
    \/ \E j \in Jobs : GenGatherFails(j)
    \/ \E j \in Jobs : GenWeightLookup(j)
    \/ \E j \in Jobs : GenWeightLookupFails(j)
    \/ \E j \in Jobs : GenWeightCommit(j)
    \/ \E j \in Jobs : GenGenerate(j)
    \/ \E j \in Jobs : GenGenerateFails(j)
    \/ \E j \in Jobs : GenInsert(j)
    \/ \E j \in Jobs : GenInsertFails(j)
    \/ \E j \in Jobs : JobNext(j)
    \/ \E j \in Jobs : JobFinish(j)
    \/ \E r \in Reqs : GetToday(r)
    \/ \E r \in Reqs : Regenerate(r)
    \/ \E r \in Reqs : GsGather(r)
    \/ \E r \in Reqs : GsGenerate(r)
    \/ \E r \in Reqs : GsCommit(r)
    \/ \E r \in Reqs : GsReread(r)
    \/ \E r \in Reqs : ReqNext(r)

Spec == Init /\ [][Next]_vars

TypeOK ==
    /\ \A b \in briefings : b.user_id \in Users /\ b.date \in Days
    /\ \A w \in weights : w.user_id \in Users /\ w.date \in Days

--------------------------------------------------------------------------
(* Deletion of a subject, as models.py declares it: the relationships of   *)
(* User cascade to its briefings, reviews and weight entries, and the      *)
(* foreign keys are ON DELETE CASCADE.                                     *)

DeleteUser(u) ==
    /\ u \in users
    /\ users' = users \ {u}
    /\ briefings' = Cascade(briefings, u)
    /\ reviews' = Cascade(reviews, u)
    /\ weights' = Cascade(weights, u)
    /\ UNCHANGED <<job, req, hevy, rv, agg, gen, calc>>

(* every account holds one session *)
InitOwn ==
    /\ users = Users
    /\ calc = NoCalc
    /\ briefings = InitBriefings
    /\ weights = InitWeights
    /\ job = [j \in Jobs |-> JobIdle]
    /\ req = [r \in Reqs |-> ReqIdle]
    /\ reviews = {}
    /\ hevy = [u \in Users |-> IF hevy_api_key[u] THEN <<RawWorkout(1)>> ELSE <<>>]
    /\ rv = RvIdle
    /\ agg = NoAgg
    /\ gen = NoGen

(* one run of each job and the requests, while subjects are deleted *)
NextOwn ==
    \/ \E u \in Users : DeleteUser(u)
    \/ JobStart("job1")
    \/ GenLookup("job1")
    \/ GenGather("job1")
    \/ GenWeightLookup("job1")
    \/ GenWeightCommit("job1")
    \/ GenGenerate("job1")
    \/ GenInsert("job1")
    \/ JobNext("job1")
    \/ JobFinish("job1")
    \/ \E r \in Reqs : GetToday(r)
    \/ \E r \in Reqs : GsGather(r)
    \/ \E r \in Reqs : GsGenerate(r)
    \/ \E r \in Reqs : GsCommit(r)
    \/ \E r \in Reqs : GsReread(r)
    \/ rv.run = 0 /\ RvJobStart
    \/ RvFetchWithIds
    \/ RvLoop
    \/ RvMemory
    \/ RvGather
    \/ RvReview
    \/ RvTips
    \/ RvInsert
    \/ RvSleep
    \/ RvUserDone
    \/ RvJobDone

SpecOwn == InitOwn /\ [][NextOwn]_vars

--------------------------------------------------------------------------
(* One run of daily_briefing_job next to the runs of workout_review_job,   *)
(* with every failure either job can meet.                                 *)

JobSteps ==
    \/ JobStart("job1")
    \/ JobSelectFails("job1")
    \/ GenLookup("job1")
    \/ GenLookupFails("job1")
    \/ GenGather("job1")
    \/ GenGatherFails("job1")
    \/ GenWeightLookup("job1")
    \/ GenWeightLookupFails("job1")
    \/ GenWeightCommit("job1")
    \/ GenGenerate("job1")
    \/ GenGenerateFails("job1")
    \/ GenInsert("job1")
    \/ GenInsertFails("job1")
    \/ JobNext("job1")
    \/ JobFinish("job1")

NextJobs == JobSteps \/ NextReview

(* asyncio runs each started job to its end: every await returns or raises *)
LiveJobs == InitOwn /\ [][NextJobs]_vars /\ WF_vars(JobSteps) /\ WF_vars(NextReview)

--------------------------------------------------------------------------
(* services/aggregator.py: gather_user_context *)

(* what one call meets: the credentials of the user, the flag of the call, *)
(* and the outcome of every decryption and adapter call it may make        *)
AggInputs ==
    [pc : {"start"},
     yazio_email : BOOLEAN, yazio_password : BOOLEAN, hevy_api_key : BOOLEAN,
     include_today_nutrition : BOOLEAN,
     decrypt_yazio : {"ok", "raise"},
     fetch_yesterday : {"summary", "None", "raise"},
     fetch_today : {"summary", "None", "raise"},
     decrypt_hevy : {"ok", "raise"},
     fetch_workouts : {"list", "empty", "None", "raise"},
     yazio : {"None"}, yazio_today : {"None"}, hevy : {"None"},
     raised : {FALSE}]

(* a variant of the Yazio block without its except clause *)
YazioBlockNoExcept(a) ==
    IF ~(a.yazio_email /\ a.yazio_password)
    THEN [yazio |-> "None", yazio_today |-> "None", raised |-> FALSE]
    ELSE IF a.decrypt_yazio = "raise" \/ a.fetch_yesterday = "raise"
    THEN [yazio |-> "None", yazio_today |-> "None", raised |-> TRUE]
    ELSE IF ~a.include_today_nutrition
    THEN [yazio |-> a.fetch_yesterday, yazio_today |-> "None", raised |-> FALSE]
    ELSE IF a.fetch_today = "raise"
    THEN [yazio |-> a.fetch_yesterday, yazio_today |-> "None", raised |-> TRUE]
    ELSE [yazio |-> a.fetch_yesterday, yazio_today |-> a.fetch_today, raised |-> FALSE]

(* lines 36-46: yazio_data is assigned as soon as the first fetch returns; *)
(* an exception of either decryption or either fetch ends the block in the *)
(* except of line 43 and leaves what was assigned                          *)
YazioBlock(a) ==
    IF ~(a.yazio_email /\ a.yazio_password)
    THEN [yazio |-> "None", yazio_today |-> "None", raised |-> FALSE]
    ELSE IF a.decrypt_yazio = "raise" \/ a.fetch_yesterday = "raise"
    THEN [yazio |-> "None", yazio_today |-> "None", raised |-> FALSE]
    ELSE IF ~a.include_today_nutrition
    THEN [yazio |-> a.fetch_yesterday, yazio_today |-> "None", raised |-> FALSE]
    ELSE IF a.fetch_today = "raise"
    THEN [yazio |-> a.fetch_yesterday, yazio_today |-> "None", raised |-> FALSE]
    ELSE [yazio |-> a.fetch_yesterday, yazio_today |-> a.fetch_today, raised |-> FALSE]

(* lines 49-56 *)
HevyBlock(a) ==
    IF ~a.hevy_api_key THEN "None"
    ELSE IF a.decrypt_hevy = "raise" \/ a.fetch_workouts = "raise" THEN "None"
    ELSE a.fetch_workouts

AggYazio ==
    /\ agg.pc = "start"
    /\ LET y == YazioBlock(agg) IN
       agg' = [agg EXCEPT !.yazio = y.yazio, !.yazio_today = y.yazio_today,
                          !.raised = y.raised,
                          !.pc = IF y.raised THEN "raised" ELSE "hevy"]
    /\ UNCHANGED <<briefingVars, reviewVars, gen, users, calc>>

AggHevy ==
    /\ agg.pc = "hevy"
    /\ agg' = [agg EXCEPT !.hevy = HevyBlock(agg), !.pc = "return"]
    /\ UNCHANGED <<briefingVars, reviewVars, gen, users, calc>>

(* lines 58-62 *)
AggReturn ==
    /\ agg.pc = "return"
    /\ agg' = [agg EXCEPT !.pc = "returned"]
    /\ UNCHANGED <<briefingVars, reviewVars, gen, users, calc>>

InitAgg ==
    /\ users = Users
    /\ calc = NoCalc
    /\ briefings = InitBriefings
    /\ weights = InitWeights
    /\ job = [j \in Jobs |-> JobIdle]
    /\ req = [r \in Reqs |-> ReqIdle]
    /\ reviews = {}
    /\ hevy = [u \in Users |-> <<>>]
    /\ rv = RvIdle
    /\ agg \in AggInputs
    /\ gen = NoGen

NextAgg == AggYazio \/ AggHevy \/ AggReturn

SpecAgg == InitAgg /\ [][NextAgg]_vars

--------------------------------------------------------------------------
(* services/ai_service.py: the three generation functions.  A payload is   *)
(* a function from its keys to where each value comes from.                *)

BriefingKeys ==
    {"nutrition_review", "workout_suggestion", "weight_trend", "weather_note",
     "muscle_recovery"}

NutritionKeys ==
    {"calories", "protein", "carbs", "fat", "sugar", "fiber", "saturated_fat",
     "sodium"}

ReviewKeys == {"last_session", "next_session"}

TipsKeys ==
    {"workout_title", "workout_date", "nutrition_context", "exercise_tips",
     "new_exercises_to_try", "general_advice"}

(* FALLBACK_BRIEFING, lines 19-34 *)
FALLBACK_BRIEFING == [k \in BriefingKeys |-> "fallback"]

(* FALLBACK_SESSION_REVIEW, lines 36-39 *)
FALLBACK_SESSION_REVIEW == [k \in ReviewKeys |-> "fallback"]

(* FALLBACK_WORKOUT_TIPS, lines 41-48 *)
FALLBACK_WORKOUT_TIPS == [k \in TipsKeys |-> "fallback"]

(* {**a, **b} *)
Merge(a, b) ==
    [k \in DOMAIN a \cup DOMAIN b |-> IF k \in DOMAIN b THEN b[k] ELSE a[k]]

(* d[k] = v when k is not in d *)
SetDefault(d, k, v) == IF k \in DOMAIN d THEN d ELSE Merge(d, [x \in {k} |-> v])

(* what the generation service answers: a transport error, an empty text,  *)
(* a text that is no JSON, the JSON value null, or a JSON object with some *)
(* of the expected keys; the shape of nutrition_review and of              *)
(* last_session; whether workout_index lies in hevy_data                   *)
GenOutcomes == {"transport_error", "empty", "unparseable", "null", "object"}

GenInputsOf(kind, keys, shapes, nutritions, indexes) ==
    [pc : {"start"}, kind : {kind}, outcome : GenOutcomes, keys : SUBSET keys,
     shape : shapes, nutrition : nutritions, index_ok : indexes,
     result : {[none |-> "none"]}]

GenInputs ==
    GenInputsOf("briefing", BriefingKeys, {"str", "other"}, {{}}, {TRUE})
    \cup GenInputsOf("briefing", BriefingKeys, {"dict"}, SUBSET NutritionKeys,
                     {TRUE})
    \cup GenInputsOf("review", ReviewKeys,
                     {"dict", "dict_bad_exercises", "other"}, {{}}, {TRUE})
    \cup GenInputsOf("tips", TipsKeys, {"other"}, {{}}, BOOLEAN)

(* the object the service sent, once parsed *)
Parsed(g) == [k \in g.keys |-> "ai"]

(* lines 337-382 of generate_daily_briefing *)
GenerateDailyBriefing(g) ==
    IF g.outcome # "object" THEN FALLBACK_BRIEFING
    ELSE IF ~({"nutrition_review", "workout_suggestion"} \subseteq g.keys)
    THEN Merge(FALLBACK_BRIEFING, Parsed(g))
    ELSE SetDefault(SetDefault(SetDefault(Parsed(g), "weight_trend", "default"),
                               "weather_note", "default"),
                    "muscle_recovery", "default")

(* lines 356-365: the sub-keys of nutrition_review in the returned payload *)
NutritionReviewKeys(g) ==
    IF g.outcome # "object" THEN NutritionKeys
    ELSE IF ~({"nutrition_review", "workout_suggestion"} \subseteq g.keys)
    THEN IF "nutrition_review" \in g.keys /\ g.shape = "dict" THEN g.nutrition
         ELSE IF "nutrition_review" \in g.keys THEN {}
         ELSE NutritionKeys
    ELSE IF g.shape \in {"str", "dict"} THEN NutritionKeys
    ELSE {}

(* lines 574-620 of generate_session_review *)
GenerateSessionReview(g) ==
    IF g.outcome # "object" THEN FALLBACK_SESSION_REVIEW
    ELSE IF "last_session" \in g.keys /\ g.shape = "dict_bad_exercises"
    THEN FALLBACK_SESSION_REVIEW
    ELSE LET ls == IF "last_session" \in g.keys /\ g.shape = "dict"
                   THEN Parsed(g)
                   ELSE Merge(Parsed(g), [x \in {"last_session"} |-> "default"])
         IN SetDefault(ls, "next_session", "default")

(* lines 734-735 and 796-819 of generate_workout_tips *)
GenerateWorkoutTips(g) ==
    IF ~g.index_ok THEN FALLBACK_WORKOUT_TIPS
    ELSE IF g.outcome # "object" THEN FALLBACK_WORKOUT_TIPS
    ELSE SetDefault(SetDefault(Parsed(g), "exercise_tips", "default"),
                    "new_exercises_to_try", "default")

GenBriefing ==
    /\ gen.pc = "start"
    /\ gen.kind = "briefing"
    /\ gen' = [gen EXCEPT !.result = GenerateDailyBriefing(gen),
                          !.nutrition = NutritionReviewKeys(gen),
                          !.pc = "returned"]
    /\ UNCHANGED <<briefingVars, reviewVars, agg, users, calc>>

GenSessionReview ==
    /\ gen.pc = "start"
    /\ gen.kind = "review"
    /\ gen' = [gen EXCEPT !.result = GenerateSessionReview(gen), !.pc = "returned"]
    /\ UNCHANGED <<briefingVars, reviewVars, agg, users, calc>>

GenTips ==
    /\ gen.pc = "start"
    /\ gen.kind = "tips"
    /\ gen' = [gen EXCEPT !.result = GenerateWorkoutTips(gen), !.pc = "returned"]
    /\ UNCHANGED <<briefingVars, reviewVars, agg, users, calc>>

InitGen ==
    /\ users = Users
    /\ calc = NoCalc
    /\ briefings = InitBriefings
    /\ weights = InitWeights
    /\ job = [j \in Jobs |-> JobIdle]
    /\ req = [r \in Reqs |-> ReqIdle]
    /\ reviews = {}
    /\ hevy = [u \in Users |-> <<>>]
    /\ rv = RvIdle
    /\ agg = NoAgg
    /\ gen \in GenInputs

NextGen == GenBriefing \/ GenSessionReview \/ GenTips

SpecGen == InitGen /\ [][NextGen]_vars

--------------------------------------------------------------------------
(* services/analytics_service.py: compute_weekly_streaks.  An ISO week is  *)
(* a pair <<iso_year, iso_week>>; a date is the number of days from the    *)
(* Monday of week 1 of EpochYear.                                          *)

EpochYear == 2019

(* the weeks before and after a turn of the ISO year that the inputs use *)
WindowHalf == 3

(* the ISO calendar: a year has 53 weeks when 1 January or 31 December is  *)
(* a Thursday                                                              *)
DayCode(y) == (y + (y \div 4) - (y \div 100) + (y \div 400)) % 7

WeeksInYear(y) == IF DayCode(y) = 4 \/ DayCode(y - 1) = 3 THEN 53 ELSE 52

RECURSIVE WeeksBefore(_)
WeeksBefore(y) == IF y <= EpochYear THEN 0 ELSE WeeksBefore(y - 1) + WeeksInYear(y - 1)

(* datetime.strptime(f"{y}-W{w:02d}-1", "%G-W%V-%u").date() *)
MondayOf(w) == 7 * (WeeksBefore(w[1]) + w[2] - 1)

RECURSIVE IsoWeekFrom(_, _)
IsoWeekFrom(y, n) ==
    IF n <= WeeksInYear(y) THEN <<y, n>> ELSE IsoWeekFrom(y + 1, n - WeeksInYear(y))

(* date.isocalendar(), its year and week *)
IsoCalendar(day) == IsoWeekFrom(EpochYear, (day \div 7) + 1)

(* a variant of the step to the previous week that stays in the ISO year *)
PrevIsoWeekSameYear(w) == <<w[1], w[2] - 1>>

(* lines 299-302: check_date - timedelta(weeks=1), as an ISO week *)
PrevIsoWeek(w) == IsoCalendar(MondayOf(w) - 7)

(* lines 314-316: prev_date + timedelta(weeks=1), as an ISO week *)
NextIsoWeek(w) == IsoCalendar(MondayOf(w) + 7)

(* the order of Python tuples *)
WeekLess(a, b) == a[1] < b[1] \/ (a[1] = b[1] /\ a[2] < b[2])

RECURSIVE SortedWeeks(_)
(* sorted(active_weeks) *)
SortedWeeks(S) ==
    IF S = {} THEN <<>>
    ELSE LET m == CHOOSE a \in S : \A b \in S \ {a} : WeekLess(a, b)
         IN <<m>> \o SortedWeeks(S \ {m})

RECURSIVE CountBack(_, _)
(* lines 293-304: the loop that walks back from the current week *)
CountBack(active_weeks, w) ==
    IF w \in active_weeks THEN 1 + CountBack(active_weeks, PrevIsoWeek(w)) ELSE 0

RECURSIVE LongestFrom(_, _, _, _)
(* lines 307-320: the loop over the sorted weeks *)
LongestFrom(sorted_weeks, i, streak, longest) ==
    IF i > Len(sorted_weeks) THEN longest
    ELSE LET s2 == IF i = 1 THEN 1
                   ELSE IF sorted_weeks[i] = NextIsoWeek(sorted_weeks[i - 1])
                        THEN streak + 1
                        ELSE 1
         IN LongestFrom(sorted_weeks, i + 1, s2, IF s2 > longest THEN s2 ELSE longest)

(* _compute_streak, lines 282-326 *)
ComputeStreak(active_weeks, current_week) ==
    IF active_weeks = {}
    THEN [current_streak |-> 0, longest_streak |-> 0, total_active_weeks |-> 0]
    ELSE [current_streak |-> CountBack(active_weeks, current_week),
          longest_streak |-> LongestFrom(SortedWeeks(active_weeks), 1, 0, 0),
          total_active_weeks |-> Cardinality(active_weeks)]

(* the last weeks of ISO year y and the first weeks of the next one *)
Window(y) ==
    {<<y, w>> : w \in (WeeksInYear(y) - WindowHalf + 1)..WeeksInYear(y)}
    \cup {<<y + 1, w>> : w \in 1..WindowHalf}

(* 2020 has 53 ISO weeks, 2021 has 52 *)
TurnYears == {2020, 2021}

StreakInputs ==
    UNION {[pc : {"start"}, active_weeks : SUBSET Window(y), current_week : Window(y),
            result : {[current_streak |-> 0, longest_streak |-> 0,
                       total_active_weeks |-> 0]}] : y \in TurnYears}

CalcStreak ==
    /\ calc.pc = "start"
    /\ calc' = [calc EXCEPT !.result = ComputeStreak(calc.active_weeks, calc.current_week),
                            !.pc = "returned"]
    /\ UNCHANGED <<briefingVars, reviewVars, agg, gen, users>>

InitStreak ==
    /\ users = Users
    /\ calc \in StreakInputs
    /\ briefings = InitBriefings
    /\ weights = InitWeights
    /\ job = [j \in Jobs |-> JobIdle]
    /\ req = [r \in Reqs |-> ReqIdle]
    /\ reviews = {}
    /\ hevy = [u \in Users |-> <<>>]
    /\ rv = RvIdle
    /\ agg = NoAgg
    /\ gen = NoGen

NextStreak == CalcStreak

SpecStreak == InitStreak /\ [][NextStreak]_vars

--------------------------------------------------------------------------
(* services/analytics_service.py: compute_achievements, the workout-count  *)
(* milestones                                                              *)

(* the longest list of completed sessions handed to the function *)
MaxWorkouts == 201

(* workout_milestones, lines 564-571: (target, id) *)
workout_milestones ==
    <<[target |-> 1, id |-> "first_workout"],
      [target |-> 10, id |-> "10_workouts"],
      [target |-> 25, id |-> "25_workouts"],
      [target |-> 50, id |-> "50_workouts"],
      [target |-> 100, id |-> "100_workouts"],
      [target |-> 200, id |-> "200_workouts"]>>

(* a variant of the unlock test that needs one session more *)
UnlockedStrict(total, target) == total > target

(* line 579 *)
Unlocked(total, target) == total >= target

(* lines 572-584: one achievement per milestone *)
WorkoutCountAchievements(workouts) ==
    LET total_workouts == Len(workouts) IN
    [m \in DOMAIN workout_milestones |->
        [id |-> workout_milestones[m].id,
         category |-> "training",
         unlocked |-> Unlocked(total_workouts, workout_milestones[m].target),
         progress |-> Min(total_workouts, workout_milestones[m].target),
         target |-> workout_milestones[m].target]]

AchievementInputs ==
    [pc : {"start"}, workouts : {[k \in 1..n |-> k] : n \in 0..MaxWorkouts},
     result : {<<>>}]

CalcAchievements ==
    /\ calc.pc = "start"
    /\ calc' = [calc EXCEPT !.result = WorkoutCountAchievements(calc.workouts),
                            !.pc = "returned"]
    /\ UNCHANGED <<briefingVars, reviewVars, agg, gen, users>>

InitAchievements ==
    /\ users = Users
    /\ calc \in AchievementInputs
    /\ briefings = InitBriefings
    /\ weights = InitWeights
    /\ job = [j \in Jobs |-> JobIdle]
    /\ req = [r \in Reqs |-> ReqIdle]
    /\ reviews = {}
    /\ hevy = [u \in Users |-> <<>>]
    /\ rv = RvIdle
    /\ agg = NoAgg
    /\ gen = NoGen

NextAchievements == CalcAchievements

SpecAchievements == InitAchievements /\ [][NextAchievements]_vars

--------------------------------------------------------------------------
(* services/analytics_service.py: compute_achievements, the whole          *)
(* catalogue.  A weight on the bar and a volume are in tenths of a kg, a   *)
(* body mass in hundredths of a kg, a date is a day number.                *)

(* the longest list of sessions of an input *)
MaxLogged == 2

(* round(x) of Python for x = n / 10: a tie goes to the even neighbour *)
Round(n) ==
    LET q == n \div 10
        r == n % 10
    IN IF r < 5 THEN q
       ELSE IF r > 5 THEN q + 1
       ELSE IF q % 2 = 0 THEN q ELSE q + 1

Abs(n) == IF n < 0 THEN 0 - n ELSE n

RECURSIVE Concat(_)
Concat(ss) == IF ss = <<>> THEN <<>> ELSE Head(ss) \o Concat(Tail(ss))

RECURSIVE Sum(_)
Sum(ns) == IF ns = <<>> THEN 0 ELSE Head(ns) + Sum(Tail(ns))

RECURSIVE MaxOf(_)
MaxOf(ns) ==
    IF ns = <<>> THEN 0
    ELSE LET m == MaxOf(Tail(ns)) IN IF Head(ns) > m THEN Head(ns) ELSE m

(* lines 553-555: weight = s.get("weight_kg") or 0, reps likewise, and the *)
(* test that both are positive                                             *)
Counted(s) == Get(s, "weight_kg", 0) > 0 /\ Get(s, "reps", 0) > 0

(* lines 547-558: the entries appended to all_exercises, in loop order *)
CountedSets(workouts) ==
    Concat([k \in DOMAIN workouts |->
        Concat([e \in DOMAIN workouts[k].exercises |->
            LET ex == workouts[k].exercises[e]
                kept == SelectSeq2(ex.sets, [s \in Range(ex.sets) |-> Counted(s)])
            IN [i \in DOMAIN kept |->
                   [name |-> ex.title, weight |-> kept[i].weight_kg,
                    reps |-> kept[i].reps]]])])

(* line 556 *)
TotalVolumeAllTime(workouts) ==
    LET sets == CountedSets(workouts)
    IN Sum([i \in DOMAIN sets |-> sets[i].weight * sets[i].reps])

(* lines 587-593 *)
vol_milestones ==
    <<[target |-> 10000, id |-> "10k_volume"],
      [target |-> 50000, id |-> "50k_volume"],
      [target |-> 100000, id |-> "100k_volume"],
      [target |-> 500000, id |-> "500k_volume"],
      [target |-> 1000000, id |-> "1m_volume"]>>

(* lines 594-605 *)
VolumeAchievements(workouts) ==
    LET total_volume_all_time == TotalVolumeAllTime(workouts) IN
    [m \in DOMAIN vol_milestones |->
        [id |-> vol_milestones[m].id,
         category |-> "training",
         unlocked |-> total_volume_all_time >= 10 * vol_milestones[m].target,
         progress |-> Min(Round(total_volume_all_time), vol_milestones[m].target),
         target |-> vol_milestones[m].target]]

(* lines 608-622 *)
strength_targets ==
    <<[ex_name |-> "Bench Press (Barbell)", target_kg |-> 60, id |-> "bench_60"],
      [ex_name |-> "Bench Press (Barbell)", target_kg |-> 80, id |-> "bench_80"],
      [ex_name |-> "Bench Press (Barbell)", target_kg |-> 100, id |-> "bench_100"],
      [ex_name |-> "Bench Press (Barbell)", target_kg |-> 140, id |-> "bench_140"],
      [ex_name |-> "Squat (Barbell)", target_kg |-> 100, id |-> "squat_100"],
      [ex_name |-> "Squat (Barbell)", target_kg |-> 140, id |-> "squat_140"],
      [ex_name |-> "Squat (Barbell)", target_kg |-> 180, id |-> "squat_180"],
      [ex_name |-> "Deadlift (Barbell)", target_kg |-> 100, id |-> "deadlift_100"],
      [ex_name |-> "Deadlift (Barbell)", target_kg |-> 140, id |-> "deadlift_140"],
      [ex_name |-> "Deadlift (Barbell)", target_kg |-> 180, id |-> "deadlift_180"],
      [ex_name |-> "Deadlift (Barbell)", target_kg |-> 220, id |-> "deadlift_220"],
      [ex_name |-> "Overhead Press (Barbell)", target_kg |-> 60, id |-> "ohp_60"],
      [ex_name |-> "Overhead Press (Barbell)", target_kg |-> 80, id |-> "ohp_80"]>>

(* line 628, ex_name.lower() in ename.lower(), over the titles the inputs  *)
(* use: a title contains itself, and the incline press contains the press  *)
NameIn(ex_name, ename) ==
    \/ ename = ex_name
    \/ ex_name = "Bench Press (Barbell)" /\ ename = "Incline Bench Press (Barbell)"

(* lines 626-631 *)
MaxWeight(workouts, ex_name) ==
    LET sets == CountedSets(workouts)
    IN MaxOf([i \in DOMAIN sets |->
                 IF NameIn(ex_name, sets[i].name) THEN sets[i].weight ELSE 0])

(* lines 624-642 *)
StrengthAchievements(workouts) ==
    [m \in DOMAIN strength_targets |->
        LET max_weight == MaxWeight(workouts, strength_targets[m].ex_name) IN
        [id |-> strength_targets[m].id,
         category |-> "strength",
         unlocked |-> max_weight >= 10 * strength_targets[m].target_kg,
         progress |-> Min(Round(max_weight), strength_targets[m].target_kg),
         target |-> strength_targets[m].target_kg]]

(* the milestones whose measure is a count: lines 652-663, 678-689,        *)
(* 713-724, 757-768                                                        *)
CountAchievements(milestones, category, count) ==
    [m \in DOMAIN milestones |->
        [id |-> milestones[m].id,
         category |-> category,
         unlocked |-> count >= milestones[m].target,
         progress |-> Min(count, milestones[m].target),
         target |-> milestones[m].target]]

(* lines 645-651 *)
nutrition_milestones ==
    <<[target |-> 7, id |-> "7_days_tracked"],
      [target |-> 30, id |-> "30_days_tracked"],
      [target |-> 90, id |-> "90_days_tracked"],
      [target |-> 180, id |-> "180_days_tracked"],
      [target |-> 365, id |-> "365_days_tracked"]>>

(* lines 666-671: protein_goal > 0 and actual_protein >= protein_goal * 0.95 *)
ProteinTargetDays(nutrition_by_date) ==
    Cardinality({d \in DOMAIN nutrition_by_date :
        LET protein_goal == Get(Get(nutrition_by_date[d], "goals", <<>>), "protein", 0)
            actual_protein == Get(nutrition_by_date[d], "protein", 0)
        IN protein_goal > 0 /\ 100 * actual_protein >= 95 * protein_goal})

(* lines 673-677 *)
prot_milestones ==
    <<[target |-> 7, id |-> "protein_7"],
      [target |-> 30, id |-> "protein_30"],
      [target |-> 100, id |-> "protein_100"]>>

(* lines 706-712 *)
streak_milestones ==
    <<[target |-> 4, id |-> "streak_4"],
      [target |-> 8, id |-> "streak_8"],
      [target |-> 12, id |-> "streak_12"],
      [target |-> 26, id |-> "streak_26"],
      [target |-> 52, id |-> "streak_52"]>>

(* _dates_to_iso_weeks, lines 267-276 *)
DatesToIsoWeeks(dates) == {IsoCalendar(dates[k]) : k \in DOMAIN dates}

(* lines 702-703: compute_weekly_streaks(...)["training"]["longest_streak"] *)
LongestTraining(workout_dates, today) ==
    ComputeStreak(DatesToIsoWeeks(workout_dates), IsoCalendar(today)).longest_streak

(* lines 732-736; the targets, like the progress, in tenths of a kg *)
weight_milestones ==
    <<[target |-> 20, id |-> "weight_2kg"],
      [target |-> 50, id |-> "weight_5kg"],
      [target |-> 100, id |-> "weight_10kg"]>>

(* lines 727-748: the body-mass milestones are appended only when two      *)
(* weight entries are there                                                *)
WeightAchievements(weight_entries) ==
    IF Len(weight_entries) >= 2
    THEN LET first_w == weight_entries[1].weight_kg
             last_w == weight_entries[Len(weight_entries)].weight_kg
             total_change == Abs(Round(last_w - first_w))
         IN [m \in DOMAIN weight_milestones |->
                [id |-> weight_milestones[m].id,
                 category |-> "body",
                 unlocked |-> total_change >= weight_milestones[m].target,
                 progress |-> Min(total_change, weight_milestones[m].target),
                 target |-> weight_milestones[m].target]]
    ELSE <<>>

(* lines 752-756 *)
variety_milestones ==
    <<[target |-> 10, id |-> "variety_10"],
      [target |-> 25, id |-> "variety_25"],
      [target |-> 50, id |-> "variety_50"]>>

(* line 751: len(all_exercises) *)
UniqueExercises(workouts) ==
    LET sets == CountedSets(workouts)
    IN Cardinality({sets[i].name : i \in DOMAIN sets})

(* compute_achievements, lines 525-770 *)
ComputeAchievements(workouts, nutrition_dates, workout_dates, weight_entries, nutrition_by_date, today) ==
    WorkoutCountAchievements(workouts)
    \o VolumeAchievements(workouts)
    \o StrengthAchievements(workouts)
    \o CountAchievements(nutrition_milestones, "nutrition", Len(nutrition_dates))
    \o CountAchievements(prot_milestones, "nutrition",
                         ProteinTargetDays(nutrition_by_date))
    \o CountAchievements(streak_milestones, "consistency",
                         LongestTraining(workout_dates, today))
    \o WeightAchievements(weight_entries)
    \o CountAchievements(variety_milestones, "training", UniqueExercises(workouts))

(* one exercise with one set *)
Logged(title, weight_kg, reps) ==
    [title |-> title, sets |-> <<[weight_kg |-> weight_kg, reps |-> reps]>>]

VarietyTitles ==
    <<"Ex1", "Ex2", "Ex3", "Ex4", "Ex5", "Ex6", "Ex7", "Ex8", "Ex9", "Ex10">>

(* the sessions of the inputs: a bench press of 59.5 kg, an incline press  *)
(* of 60 kg, a volume of 9999.5 kg and of 10000 kg, ten exercises, and a   *)
(* set without repetitions                                                 *)
SessionChoices ==
    {[exercises |-> <<Logged("Bench Press (Barbell)", 595, 5)>>],
     [exercises |-> <<Logged("Incline Bench Press (Barbell)", 600, 5)>>],
     [exercises |-> <<Logged("Leg Press", 19999, 5)>>],
     [exercises |-> <<Logged("Leg Press", 20000, 5)>>],
     [exercises |-> [k \in DOMAIN VarietyTitles |-> Logged(VarietyTitles[k], 100, 1)]],
     [exercises |-> <<Logged("Squat (Barbell)", 1000, 0)>>]}

(* a day of nutrition: the protein goal just met, just missed, or not set *)
DayChoices ==
    {[protein |-> 95, goals |-> [protein |-> 100]],
     [protein |-> 94, goals |-> [protein |-> 100]],
     [protein |-> 100, goals |-> [protein |-> 0]]}

TrackedDays == {0, 6, 7}

(* one day in each of the first n weeks of the window around the turn of   *)
(* 2020                                                                    *)
TrainingDates(n) == [k \in 1..n |-> MondayOf(SortedWeeks(Window(2020))[k]) + 2]

BodyMasses == {7000, 7190, 7200}

CatalogueInputs ==
    [pc : {"start"},
     workouts : UNION {[1..n -> SessionChoices] : n \in 0..MaxLogged},
     nutrition_dates : {[k \in 1..n |-> k] : n \in TrackedDays},
     workout_dates : {TrainingDates(n) : n \in {0, WindowHalf, WindowHalf + 1}},
     weight_entries : UNION {[1..n -> [weight_kg : BodyMasses]] : n \in 0..2},
     nutrition_by_date : {[k \in 1..n |-> d] : n \in TrackedDays \ {0}, d \in DayChoices},
     today : {MondayOf(<<2021, 1>>)},
     result : {<<>>}]

CalcCatalogue ==
    /\ calc.pc = "start"
    /\ calc' = [calc EXCEPT
           !.result = ComputeAchievements(calc.workouts, calc.nutrition_dates,
                          calc.workout_dates, calc.weight_entries,
                          calc.nutrition_by_date, calc.today),
           !.pc = "returned"]
    /\ UNCHANGED <<briefingVars, reviewVars, agg, gen, users>>

InitCatalogue ==
    /\ users = Users
    /\ calc \in CatalogueInputs
    /\ briefings = InitBriefings
    /\ weights = InitWeights
    /\ job = [j \in Jobs |-> JobIdle]
    /\ req = [r \in Reqs |-> ReqIdle]
    /\ reviews = {}
    /\ hevy = [u \in Users |-> <<>>]
    /\ rv = RvIdle
    /\ agg = NoAgg
    /\ gen = NoGen

NextCatalogue == CalcCatalogue

SpecCatalogue == InitCatalogue /\ [][NextCatalogue]_vars

--------------------------------------------------------------------------
(* services/analytics_service.py: compute_macro_performance_correlation.   *)
(* A weight on the bar is in hundredths of a kg, a rounded volume or e1RM  *)
(* in tenths of a kg, a percentage in tenths of a percent; a date is a day *)
(* number.                                                                 *)

(* the longest list of sessions of an input *)
MaxPaired == 4

(* round(n / d) of Python for d > 0: a tie goes to the even neighbour *)
RoundDiv(n, d) ==
    LET q == n \div d
        r == n % d
    IN IF 2 * r < d THEN q
       ELSE IF 2 * r > d THEN q + 1
       ELSE IF q % 2 = 0 THEN q ELSE q + 1

(* the session has no usable start_time *)
NoDate == 0

(* _extract_workout_date, lines 19-22 *)
ExtractWorkoutDate(workout) ==
    IF Get(workout, "start_time", NoDate) > NoDate THEN workout.start_time ELSE NoDate

(* _compute_workout_metrics, lines 25-49: e1rm = w * (1 + r / 30.0) is     *)
(* w * (30 + r) / 30                                                       *)
ComputeWorkoutMetrics(workout) ==
    LET sets == CountedSets(<<workout>>)
        total_volume == Sum([i \in DOMAIN sets |-> sets[i].weight * sets[i].reps])
        best_e1rm == MaxOf([i \in DOMAIN sets |-> sets[i].weight * (30 + sets[i].reps)])
    IN [title |-> Get(workout, "title", "Workout"),
        date |-> ExtractWorkoutDate(workout),
        total_volume_kg |-> RoundDiv(total_volume, 10),
        best_e1rm |-> RoundDiv(best_e1rm, 300),
        exercise_count |-> Len(workout.exercises)]

(* a variant that pairs a session with the nutrition of its own day *)
PrevDaySame(wd) == wd

(* line 73: (wd - timedelta(days=1)).isoformat() *)
PrevDay(wd) == wd - 1

(* lines 64-93 for one session: its data point, or none *)
DataPointOf(w, nutrition_by_date) ==
    LET metrics == ComputeWorkoutMetrics(w)
        workout_date == metrics.date
        prev_day == PrevDay(workout_date)
    IN IF workout_date = NoDate THEN <<>>
       ELSE IF prev_day \notin DOMAIN nutrition_by_date THEN <<>>
       ELSE LET nutrition == nutrition_by_date[prev_day]
            IN <<[workout_date |-> workout_date,
                  workout_title |-> metrics.title,
                  volume |-> metrics.total_volume_kg,
                  best_e1rm |-> metrics.best_e1rm,
                  prev_day_calories |-> Get(nutrition, "calories", 0),
                  prev_day_protein |-> Get(nutrition, "protein", 0),
                  prev_day_carbs |-> Get(nutrition, "carbs", 0),
                  prev_day_fat |-> Get(nutrition, "fat", 0),
                  calorie_goal |-> Get(Get(nutrition, "goals", <<>>), "calories", 0),
                  protein_goal |-> Get(Get(nutrition, "goals", <<>>), "protein", 0)]>>

(* lines 62-93 *)
DataPoints(workouts, nutrition_by_date) ==
    Concat([k \in DOMAIN workouts |-> DataPointOf(workouts[k], nutrition_by_date)])

SumOf(points, key) == Sum([i \in DOMAIN points |-> points[i][key]])

(* a variant of the split that puts a point at the mean in the high group *)
AboveMeanOrAt(points, key) ==
    SelectSeq2(points, [d \in Range(points) |->
                           d[key] * Len(points) >= SumOf(points, key)])

(* lines 107-108, 136-137: d[key] > sum(...) / len(data_points) *)
AboveMean(points, key) ==
    SelectSeq2(points, [d \in Range(points) |->
                           d[key] * Len(points) > SumOf(points, key)])

(* lines 109, 138 *)
NotAboveMean(points, key) ==
    SelectSeq2(points, [d \in Range(points) |->
                           d[key] * Len(points) <= SumOf(points, key)])

(* lines 154-155: prev_day_calories >= calorie_goal * 0.95, and below *)
Surplus(points) ==
    SelectSeq2(points, [d \in Range(points) |->
                           100 * d.prev_day_calories >= 95 * d.calorie_goal])

Deficit(points) ==
    SelectSeq2(points, [d \in Range(points) |->
                           100 * d.prev_day_calories < 95 * d.calorie_goal])

(* lines 112-115 and alike: round(((avg_high - avg_low) / avg_low) * 100, 1) *)
DiffPercent(high, low, key) ==
    RoundDiv((SumOf(high, key) * Len(low) - SumOf(low, key) * Len(high)) * 1000,
             SumOf(low, key) * Len(high))

(* lines 111-133, 140-151, 157-167: the insight of one split and measure,  *)
(* or none                                                                 *)
Insight(type, high, low, key) ==
    IF high # <<>> /\ low # <<>> /\ SumOf(low, key) > 0
    THEN <<[type |-> type, diff_percent |-> DiffPercent(high, low, key)]>>
    ELSE <<>>

(* compute_macro_performance_correlation, lines 52-174; high_carb_sessions *)
(* and low_carb_sessions are its locals of lines 108-109                   *)
ComputeMacroPerformanceCorrelation(workouts, nutrition_by_date) ==
    LET data_points == DataPoints(workouts, nutrition_by_date)
        high_carb_sessions == AboveMean(data_points, "prev_day_carbs")
        low_carb_sessions == NotAboveMean(data_points, "prev_day_carbs")
        high_protein == AboveMean(data_points, "prev_day_protein")
        low_protein == NotAboveMean(data_points, "prev_day_protein")
    IN IF Len(data_points) < 2
       THEN [data_points |-> data_points,
             insights |-> <<>>,
             has_enough_data |-> FALSE,
             total_correlated_workouts |-> Len(data_points),
             high_carb_sessions |-> <<>>,
             low_carb_sessions |-> <<>>]
       ELSE [data_points |-> data_points,
             insights |->
                 Insight("carb_volume", high_carb_sessions, low_carb_sessions, "volume")
                 \o Insight("carb_strength", high_carb_sessions, low_carb_sessions,
                            "best_e1rm")
                 \o Insight("protein_volume", high_protein, low_protein, "volume")
                 \o Insight("calorie_target", Surplus(data_points),
                            Deficit(data_points), "volume"),
             has_enough_data |-> Len(data_points) >= 3,
             total_correlated_workouts |-> Len(data_points),
             high_carb_sessions |-> high_carb_sessions,
             low_carb_sessions |-> low_carb_sessions]

(* the days of nutrition of the inputs *)
LowCarbDay ==
    [calories |-> 1800, protein |-> 100, carbs |-> 50, fat |-> 60,
     goals |-> [calories |-> 2000, protein |-> 150]]

HighCarbDay ==
    [calories |-> 2000, protein |-> 160, carbs |-> 200, fat |-> 70,
     goals |-> [calories |-> 2000, protein |-> 150]]

FeastDay ==
    [calories |-> 3000, protein |-> 200, carbs |-> 400, fat |-> 90,
     goals |-> [calories |-> 2000, protein |-> 150]]

(* a session of one exercise with one set *)
Session(start_time, weight_kg, reps) ==
    [title |-> "Push", start_time |-> start_time,
     exercises |-> <<Logged("Bench Press (Barbell)", weight_kg, reps)>>]

(* what the k-th session of an input and the day before it can be: a       *)
(* volume of 1000 kg or 2000 kg after a low-carb or a high-carb day, a     *)
(* session after a day without a record, a session without a date, a       *)
(* session without a counted set, and a set of 61.23 kg                    *)
PairKinds ==
    {[weight_kg |-> 10000, reps |-> 10, dated |-> TRUE, prev |-> <<LowCarbDay>>],
     [weight_kg |-> 10000, reps |-> 10, dated |-> TRUE, prev |-> <<HighCarbDay>>],
     [weight_kg |-> 20000, reps |-> 10, dated |-> TRUE, prev |-> <<LowCarbDay>>],
     [weight_kg |-> 20000, reps |-> 10, dated |-> TRUE, prev |-> <<HighCarbDay>>],
     [weight_kg |-> 20000, reps |-> 10, dated |-> TRUE, prev |-> <<>>],
     [weight_kg |-> 20000, reps |-> 10, dated |-> FALSE, prev |-> <<HighCarbDay>>],
     [weight_kg |-> 10000, reps |-> 0, dated |-> TRUE, prev |-> <<LowCarbDay>>],
     [weight_kg |-> 6123, reps |-> 3, dated |-> TRUE, prev |-> <<HighCarbDay>>]}

(* the k-th session is on day 2k; every session day has a record of its    *)
(* own, the day before has the record of the kind                          *)
WorkoutsOf(kinds) ==
    [k \in DOMAIN kinds |->
        Session(IF kinds[k].dated THEN 2 * k ELSE NoDate,
                kinds[k].weight_kg, kinds[k].reps)]

NutritionOf(kinds) ==
    [d \in {2 * k : k \in DOMAIN kinds}
           \cup {2 * k - 1 : k \in {j \in DOMAIN kinds : kinds[j].prev # <<>>}} |->
        IF d % 2 = 0 THEN FeastDay ELSE kinds[(d + 1) \div 2].prev[1]]

NoCorrelation ==
    [data_points |-> <<>>, insights |-> <<>>, has_enough_data |-> FALSE,
     total_correlated_workouts |-> 0,
     high_carb_sessions |-> <<>>, low_carb_sessions |-> <<>>]

CorrelationInputs ==
    {[pc |-> "start", workouts |-> WorkoutsOf(kinds),
      nutrition_by_date |-> NutritionOf(kinds), result |-> NoCorrelation] :
        kinds \in UNION {[1..n -> PairKinds] : n \in 0..MaxPaired}}

CalcCorrelation ==
    /\ calc.pc = "start"
    /\ calc' = [calc EXCEPT
           !.result = ComputeMacroPerformanceCorrelation(calc.workouts,
                                                         calc.nutrition_by_date),
           !.pc = "returned"]
    /\ UNCHANGED <<briefingVars, reviewVars, agg, gen, users>>

InitCorrelation ==
    /\ users = Users
    /\ calc \in CorrelationInputs
    /\ briefings = InitBriefings
    /\ weights = InitWeights
    /\ job = [j \in Jobs |-> JobIdle]
    /\ req = [r \in Reqs |-> ReqIdle]
    /\ reviews = {}
    /\ hevy = [u \in Users |-> <<>>]
    /\ rv = RvIdle
    /\ agg = NoAgg
    /\ gen = NoGen

NextCorrelation == CalcCorrelation

SpecCorrelation == InitCorrelation /\ [][NextCorrelation]_vars

--------------------------------------------------------------------------
(* services/analytics_service.py: compute_progressive_overload.  A weight  *)
(* on the bar is in hundredths of a kg, a rounded e1RM or volume in tenths *)
(* of a kg, a percentage in tenths of a percent.                           *)

(* the longest list of sessions of an input *)
MaxOverload == 2

(* a variant of the estimate that leaves the repetitions out *)
E1rmNoReps(weight, reps) == weight * 30

(* line 208: e1rm = weight * (1 + reps / 30.0), as the numerator over 30 *)
E1rm(weight, reps) == weight * (30 + reps)

(* sorted(..., key=...): Python's sort is stable; keys[i] is the key of    *)
(* seq[i]                                                                  *)
StableSort(seq, keys) ==
    LET n == Len(seq)
        rank(i) == 1 + Cardinality({j \in 1..n :
                           keys[j] < keys[i] \/ (keys[j] = keys[i] /\ j < i)})
    IN [p \in 1..n |-> seq[CHOOSE i \in 1..n : rank(i) = p]]

(* lines 201-211 for the counted sets of one exercise: the first set with  *)
(* the greatest e1rm                                                       *)
BestSet(kept) ==
    kept[CHOOSE i \in DOMAIN kept :
            /\ \A j \in DOMAIN kept :
                   E1rm(kept[j].weight_kg, kept[j].reps) <= E1rm(kept[i].weight_kg, kept[i].reps)
            /\ \A j \in 1..(i - 1) :
                   E1rm(kept[j].weight_kg, kept[j].reps) < E1rm(kept[i].weight_kg, kept[i].reps)]

(* lines 190-222 for one exercise of one session: the data point appended  *)
(* to exercise_history[name], or none; name is the key it is appended     *)
(* under, best_set stands for the string f"{weight}kg x {reps}"            *)
HistoryEntry(workout_date, ex) ==
    LET sets == Get(ex, "sets", <<>>)
        kept == SelectSeq2(sets, [s \in Range(sets) |-> Counted(s)])
    IN IF kept = <<>> THEN <<>>
       ELSE <<[name |-> Get(ex, "title", "Unknown"),
               date |-> workout_date,
               best_set |-> BestSet(kept),
               e1rm |-> RoundDiv(E1rm(BestSet(kept).weight_kg, BestSet(kept).reps), 300),
               volume |-> RoundDiv(Sum([i \in DOMAIN kept |->
                                           kept[i].weight_kg * kept[i].reps]), 10),
               sets |-> Len(kept),
               reps |-> Sum([i \in DOMAIN kept |-> kept[i].reps]),
               muscle_group |-> Get(ex, "muscle_group", "")]>>

(* lines 188-222: all appended data points, in the order of the loops *)
ExerciseHistory(workouts) ==
    Concat([k \in DOMAIN workouts |->
        Concat([e \in DOMAIN workouts[k].exercises |->
            HistoryEntry(ExtractWorkoutDate(workouts[k]), workouts[k].exercises[e])])])

RECURSIVE FirstSeen(_)
(* the keys of exercise_history in insertion order *)
FirstSeen(names) ==
    IF names = <<>> THEN <<>>
    ELSE LET rest == FirstSeen(SelectSeq2(Tail(names),
                         [n \in Range(Tail(names)) |-> n # Head(names)]))
         IN <<Head(names)>> \o rest

(* lines 225-247 for one exercise name *)
Progression(name, history) ==
    LET own == SelectSeq2(history, [d \in Range(history) |-> d.name = name])
        data_points == StableSort(own, [i \in DOMAIN own |-> own[i].date])
        first_e1rm == data_points[1].e1rm
        last_e1rm == data_points[Len(data_points)].e1rm
    IN [name |-> name,
        muscle_group |-> data_points[1].muscle_group,
        data_points |-> data_points,
        sessions_count |-> Len(data_points),
        first_e1rm |-> first_e1rm,
        latest_e1rm |-> last_e1rm,
        peak_e1rm |-> MaxOf([i \in DOMAIN data_points |-> data_points[i].e1rm]),
        change_percent |-> IF Len(data_points) >= 2 /\ first_e1rm > 0
                           THEN RoundDiv((last_e1rm - first_e1rm) * 1000, first_e1rm)
                           ELSE 0]

(* compute_progressive_overload, lines 181-251 *)
ComputeProgressiveOverload(workouts) ==
    LET history == ExerciseHistory(workouts)
        names == FirstSeen([i \in DOMAIN history |-> history[i].name])
        result == [n \in DOMAIN names |-> Progression(names[n], history)]
    IN StableSort(result, [n \in DOMAIN result |-> 0 - result[n].sessions_count])

Sets(title, sets) == [title |-> title, muscle_group |-> "chest", sets |-> sets]

(* the exercises of the inputs: one set, two sets of which the second is   *)
(* the best, light weights of 1 kg and 2 kg, and a set without repetitions *)
ExerciseChoices ==
    {Sets("Bench Press (Barbell)", <<[weight_kg |-> 10000, reps |-> 5]>>),
     Sets("Bench Press (Barbell)", <<[weight_kg |-> 10000, reps |-> 5],
                                     [weight_kg |-> 11000, reps |-> 3]>>),
     Sets("Bench Press (Barbell)", <<[weight_kg |-> 200, reps |-> 1]>>),
     Sets("Bench Press (Barbell)", <<[weight_kg |-> 200, reps |-> 2]>>),
     Sets("Lateral Raise (Dumbbell)", <<[weight_kg |-> 100, reps |-> 1]>>),
     Sets("Squat (Barbell)", <<[weight_kg |-> 10000, reps |-> 0]>>),
     Sets("Squat (Barbell)", <<[weight_kg |-> 10000, reps |-> 5]>>)}

(* a session holds one or two exercises *)
ExerciseLists == UNION {[1..n -> ExerciseChoices] : n \in 1..2}

(* the sessions arrive newest first, as the adapter returns them *)
OverloadInputs ==
    UNION {{[pc |-> "start",
             workouts |-> [k \in 1..n |->
                              [title |-> "Push", start_time |-> n + 1 - k,
                               exercises |-> exs[k]]],
             result |-> <<>>] : exs \in [1..n -> ExerciseLists]} : n \in 0..MaxOverload}

CalcOverload ==
    /\ calc.pc = "start"
    /\ calc' = [calc EXCEPT !.result = ComputeProgressiveOverload(calc.workouts),
                            !.pc = "returned"]
    /\ UNCHANGED <<briefingVars, reviewVars, agg, gen, users>>

InitOverload ==
    /\ users = Users
    /\ calc \in OverloadInputs
    /\ briefings = InitBriefings
    /\ weights = InitWeights
    /\ job = [j \in Jobs |-> JobIdle]
    /\ req = [r \in Reqs |-> ReqIdle]
    /\ reviews = {}
    /\ hevy = [u \in Users |-> <<>>]
    /\ rv = RvIdle
    /\ agg = NoAgg
    /\ gen = NoGen

NextOverload == CalcOverload

SpecOverload == InitOverload /\ [][NextOverload]_vars

--------------------------------------------------------------------------
(* services/analytics_service.py: the functions that read the calendar.    *)
(* calc.today is the value of date.today(); it moves between two           *)
(* invocations with the same arguments.                                    *)

(* the days the clock can move between the two invocations *)
MaxTicks == 5

(* compute_weekly_streaks, lines 258-337 *)
ComputeWeeklyStreaks(workout_dates, nutrition_dates, today) ==
    LET workout_weeks == DatesToIsoWeeks(workout_dates)
        nutrition_weeks == DatesToIsoWeeks(nutrition_dates)
        current_week == IsoCalendar(today)
    IN [training |-> ComputeStreak(workout_weeks, current_week),
        nutrition |-> ComputeStreak(nutrition_weeks, current_week),
        combined |-> ComputeStreak(workout_weeks \cup nutrition_weeks, current_week)]

(* lines 378-386: the muscle group of every counted set *)
GroupsOfSets(workouts) ==
    Concat([k \in DOMAIN workouts |->
        Concat([e \in DOMAIN workouts[k].exercises |->
            LET ex == workouts[k].exercises[e]
                kept == SelectSeq2(ex.sets, [s \in Range(ex.sets) |-> Counted(s)])
            IN [i \in DOMAIN kept |-> Get(ex, "muscle_group", "other")]])])

(* lines 390-393: round(sum / max(1, len), 1), in tenths, or 0 *)
Average(records, key) ==
    IF records = <<>> THEN 0
    ELSE RoundDiv(10 * Sum([i \in DOMAIN records |-> Get(records[i], key, 0)]),
                  Len(records))

(* compute_weekly_report, lines 344-428; today.weekday() is today % 7, a   *)
(* value that is None is an empty sequence                                 *)
ComputeWeeklyReport(workouts, nutrition_by_date, weight_entries, week_offset, today) ==
    LET current_monday == today - (today % 7)
        target_monday == current_monday - 7 * week_offset
        target_sunday == target_monday + 6
        InWeek(d) == d # NoDate /\ target_monday <= d /\ d <= target_sunday
        week_workouts ==
            SelectSeq2(workouts,
                       [w \in Range(workouts) |-> InWeek(ExtractWorkoutDate(w))])
        sets == CountedSets(week_workouts)
        groups == GroupsOfSets(week_workouts)
        date_strs == [i \in 1..7 |-> target_monday + i - 1]
        tracked == SelectSeq2(date_strs,
                              [d \in Range(date_strs) |-> d \in DOMAIN nutrition_by_date])
        week_nutrition == [i \in DOMAIN tracked |-> nutrition_by_date[tracked[i]]]
        week_weights ==
            SelectSeq2(weight_entries,
                       [we \in Range(weight_entries) |-> InWeek(we.date)])
        start_weight == IF week_weights = <<>> THEN <<>>
                        ELSE <<week_weights[1].weight_kg>>
        end_weight == IF week_weights = <<>> THEN <<>>
                      ELSE <<week_weights[Len(week_weights)].weight_kg>>
    IN [week_start |-> target_monday,
        week_end |-> target_sunday,
        week_offset |-> week_offset,
        training |->
            [workouts_count |-> Len(week_workouts),
             total_volume_kg |->
                 RoundDiv(Sum([i \in DOMAIN sets |-> sets[i].weight * sets[i].reps]), 10),
             total_sets |-> Len(sets),
             total_duration_min |->
                 Sum([k \in DOMAIN week_workouts |->
                         Get(week_workouts[k], "duration_min", 0)]),
             muscle_groups |->
                 [mg \in Range(groups) |->
                     Cardinality({i \in DOMAIN groups : groups[i] = mg})],
             workout_names |->
                 [k \in DOMAIN week_workouts |-> Get(week_workouts[k], "title", "Workout")]],
        nutrition |->
            [days_tracked |-> Len(week_nutrition),
             avg_calories |-> Average(week_nutrition, "calories"),
             avg_protein |-> Average(week_nutrition, "protein"),
             avg_carbs |-> Average(week_nutrition, "carbs"),
             avg_fat |-> Average(week_nutrition, "fat"),
             calorie_goal |->
                 IF week_nutrition = <<>> THEN 0
                 ELSE Get(Get(week_nutrition[1], "goals", <<>>), "calories", 0),
             protein_goal |->
                 IF week_nutrition = <<>> THEN 0
                 ELSE Get(Get(week_nutrition[1], "goals", <<>>), "protein", 0)],
        weight |->
            [start |-> start_weight,
             end |-> end_weight,
             change |-> IF week_weights # <<>> /\ start_weight[1] # 0 /\ end_weight[1] # 0
                        THEN <<end_weight[1] - start_weight[1]>>
                        ELSE <<>>]]

(* the Wednesdays of three consecutive ISO weeks across the turn of 2020 *)
TrainingDays ==
    <<MondayOf(<<2020, 52>>) + 2, MondayOf(<<2020, 53>>) + 2, MondayOf(<<2021, 1>>) + 2>>

(* the first invocation happens on the Thursday of week 1 of 2021 *)
ClockStart == MondayOf(<<2021, 1>>) + 3

(* one invocation of a function that takes the arguments of the input *)
Invoke(c) ==
    IF c.fn = "compute_weekly_streaks"
    THEN ComputeWeeklyStreaks(c.workout_dates, c.nutrition_dates, c.today)
    ELSE IF c.fn = "compute_weekly_report"
    THEN ComputeWeeklyReport(c.workouts, c.nutrition_by_date, c.weight_entries,
                             c.week_offset, c.today)
    ELSE IF c.fn = "compute_achievements"
    THEN ComputeAchievements(c.workouts, c.nutrition_dates, c.workout_dates,
                             c.weight_entries, c.nutrition_by_date, c.today)
    ELSE IF c.fn = "compute_progressive_overload"
    THEN ComputeProgressiveOverload(c.workouts)
    ELSE ComputeMacroPerformanceCorrelation(c.workouts, c.nutrition_by_date)

AnalyticsFunctions ==
    {"compute_weekly_streaks", "compute_weekly_report", "compute_achievements",
     "compute_progressive_overload", "compute_macro_performance_correlation"}

(* the arguments: sessions on some of the training days, the nutrition of  *)
(* the days before them, two weight entries                                *)
ClockInputs ==
    {[pc |-> "start",
      fn |-> fn,
      workouts |-> [k \in DOMAIN days |->
                       [title |-> "Push", start_time |-> days[k], duration_min |-> 60,
                        exercises |-> <<Sets("Bench Press (Barbell)",
                                             <<[weight_kg |-> 10000, reps |-> 5]>>)>>]],
      workout_dates |-> days,
      nutrition_dates |-> [k \in DOMAIN days |-> days[k] - 1],
      nutrition_by_date |->
          [d \in {days[k] - 1 : k \in DOMAIN days} |->
              IF d < ClockStart - 7 THEN LowCarbDay ELSE HighCarbDay],
      weight_entries |-> [k \in DOMAIN days |->
                             [date |-> days[k], weight_kg |-> 7000 + 10 * k]],
      week_offset |-> week_offset,
      today |-> ClockStart,
      first |-> <<>>,
      second |-> <<>>] :
        fn \in AnalyticsFunctions,
        week_offset \in {0, 1},
        days \in {SelectSeq2(TrainingDays, [d \in Range(TrainingDays) |-> d \in S]) :
                     S \in SUBSET Range(TrainingDays)}}

(* the first invocation *)
CallFirst ==
    /\ calc.pc = "start"
    /\ calc' = [calc EXCEPT !.first = <<Invoke(calc)>>, !.pc = "once"]
    /\ UNCHANGED <<briefingVars, reviewVars, agg, gen, users>>

(* a day passes *)
Tick ==
    /\ calc.pc = "once"
    /\ calc.today < ClockStart + MaxTicks
    /\ calc' = [calc EXCEPT !.today = calc.today + 1]
    /\ UNCHANGED <<briefingVars, reviewVars, agg, gen, users>>

(* the second invocation, with the same arguments *)
CallSecond ==
    /\ calc.pc = "once"
    /\ calc' = [calc EXCEPT !.second = <<Invoke(calc)>>, !.pc = "twice"]
    /\ UNCHANGED <<briefingVars, reviewVars, agg, gen, users>>

InitClock ==
    /\ users = Users
    /\ calc \in ClockInputs
    /\ briefings = InitBriefings
    /\ weights = InitWeights
    /\ job = [j \in Jobs |-> JobIdle]
    /\ req = [r \in Reqs |-> ReqIdle]
    /\ reviews = {}
    /\ hevy = [u \in Users |-> <<>>]
    /\ rv = RvIdle
    /\ agg = NoAgg
    /\ gen = NoGen

NextClock == CallFirst \/ Tick \/ CallSecond

SpecClock == InitClock /\ [][NextClock]_vars

--------------------------------------------------------------------------
(* services/yazio_service.py: fetch_nutrition_dates.  One task per date    *)
(* runs check_date; the k-th task probes the date today - (k - 1).  The    *)
(* calories of a day are in hundredths of a kcal, the rounded ones in      *)
(* tenths.                                                                 *)

(* the greatest number of days of a call *)
MaxDays == 6

(* line 312: asyncio.Semaphore(5) *)
SemaphoreLimit == 5

(* what Yazio holds for a day: something logged, or nothing *)
LoggedDay == [calories |-> 50004, protein |-> 3000]

EmptyDay == [calories |-> 0, protein |-> 0]

(* the tasks that hold the semaphore: their request is in flight *)
InFlight == {k \in DOMAIN calc.task : calc.task[k] = "inflight"}

(* the arguments and the state before the login; every second day or       *)
(* every day has something logged                                          *)
ProbeInputs ==
    {[pc |-> "login",
      days |-> days,
      today |-> ClockStart,
      logged |-> [k \in 1..days |-> IF every \/ k % 2 = 1 THEN LoggedDay ELSE EmptyDay],
      task |-> [k \in 1..days |-> "pending"],
      probes |-> [k \in 1..days |-> 0],
      token |-> FALSE,
      result |-> <<>>] : days \in 0..MaxDays, every \in BOOLEAN}

(* lines 302-303: the login returns a token *)
Login ==
    /\ calc.pc = "login"
    /\ calc' = [calc EXCEPT !.token = TRUE, !.pc = "gather"]
    /\ UNCHANGED <<briefingVars, reviewVars, agg, gen, users>>

(* lines 304-305: no token, return [] *)
LoginFails ==
    /\ calc.pc = "login"
    /\ calc' = [calc EXCEPT !.pc = "returned"]
    /\ UNCHANGED <<briefingVars, reviewVars, agg, gen, users>>

(* a variant of the entry into check_date without the semaphore *)
AcquireNoLimit(k) ==
    /\ calc.pc = "gather"
    /\ calc.task[k] = "pending"
    /\ calc' = [calc EXCEPT !.task[k] = "inflight", !.probes[k] = @ + 1]
    /\ UNCHANGED <<briefingVars, reviewVars, agg, gen, users>>

(* lines 315-321: the task enters the semaphore and sends its request *)
Acquire(k) ==
    /\ calc.pc = "gather"
    /\ calc.task[k] = "pending"
    /\ Cardinality(InFlight) < SemaphoreLimit
    /\ calc' = [calc EXCEPT !.task[k] = "inflight", !.probes[k] = @ + 1]
    /\ UNCHANGED <<briefingVars, reviewVars, agg, gen, users>>

(* lines 322-341: the response arrives with status 200, with another       *)
(* status, or the request or the parsing raises; the task returns and      *)
(* leaves the semaphore                                                    *)
Respond(k) ==
    /\ calc.pc = "gather"
    /\ calc.task[k] = "inflight"
    /\ \E outcome \in {"ok", "status", "raise"} :
           calc' = [calc EXCEPT !.task[k] = outcome]
    /\ UNCHANGED <<briefingVars, reviewVars, agg, gen, users>>

(* lines 324-339: the value check_date returns for a response of status    *)
(* 200, none when no calories are logged                                   *)
CheckDateEntry(d, day) ==
    IF day.calories > 0
    THEN <<[date |-> d, calories |-> RoundDiv(day.calories, 10),
            protein |-> RoundDiv(day.protein, 10)]>>
    ELSE <<>>

(* lines 343-347: gather returned; the results that are not None, in the   *)
(* order of dates_to_check                                                 *)
Tracked(c) ==
    Concat([k \in 1..c.days |->
               IF c.task[k] = "ok"
               THEN CheckDateEntry(c.today - (k - 1), c.logged[k])
               ELSE <<>>])

Gather ==
    /\ calc.pc = "gather"
    /\ \A k \in DOMAIN calc.task : calc.task[k] \in {"ok", "status", "raise"}
    /\ calc' = [calc EXCEPT !.result = Tracked(calc), !.pc = "returned"]
    /\ UNCHANGED <<briefingVars, reviewVars, agg, gen, users>>

InitProbe ==
    /\ users = Users
    /\ calc \in ProbeInputs
    /\ briefings = InitBriefings
    /\ weights = InitWeights
    /\ job = [j \in Jobs |-> JobIdle]
    /\ req = [r \in Reqs |-> ReqIdle]
    /\ reviews = {}
    /\ hevy = [u \in Users |-> <<>>]
    /\ rv = RvIdle
    /\ agg = NoAgg
    /\ gen = NoGen

NextProbe ==
    \/ Login
    \/ LoginFails
    \/ \E k \in DOMAIN calc.task : Acquire(k)
    \/ \E k \in DOMAIN calc.task : Respond(k)
    \/ Gather

SpecProbe == InitProbe /\ [][NextProbe]_vars

--------------------------------------------------------------------------
(* Claims about the daily briefing, checked under Spec *)

(* C1: in every reachable state, whatever the interleaving of the daily    *)
(* job's _generate_for_user, GET /today and POST /regenerate, the table    *)
(* holds at most one MorningBriefing row per (subject, date).              *)
C1_AtMostOneBriefing ==
    \A b1, b2 \in briefings :
        (b1.user_id = b2.user_id /\ b1.date = b2.date) => b1 = b2

(* a job run lost the insert race for a subject while a request for the    *)
(* same subject is about to commit its own row                             *)
C1_Witness ==
    \E j \in Jobs, r \in Reqs :
        /\ job[j].pc = "returned"
        /\ job[j].conflict
        /\ req[r].pc = "gs_commit"
        /\ req[r].user = CurUser(j)
        /\ Cardinality(BriefingOf(CurUser(j), Today)) = 1

(* C2: a call of _generate_for_user that finds today's row of its subject  *)
(* returns True at once: it calls neither the aggregator nor the           *)
(* generation function and leaves morning_briefings and weight_entries as  *)
(* they are, so exactly one row is stored for the subject and date.        *)
C2_SecondCallNoop ==
    [][\A j \in Jobs :
         ( /\ job[j].pc = "loop"
           /\ InCall(j)
           /\ BriefingOf(CurUser(j), Today) # {}
           /\ job'[j] # job[j]
           /\ ~job'[j].crashed )
         => ( /\ job'[j].pc = "returned"
              /\ job'[j].result = TRUE
              /\ job'[j].agg = job[j].agg
              /\ job'[j].gen = job[j].gen
              /\ briefings' = briefings
              /\ weights' = weights
              /\ Cardinality({b \in briefings' : b.user_id = CurUser(j)
                                                 /\ b.date = Today}) = 1 )
      ]_vars

(* a run skipped a subject whose row another run of the job had stored *)
C2_Witness ==
    \E j \in Jobs :
        /\ job[j].pc = "returned"
        /\ job[j].hit
        /\ job[j].result
        /\ \E b \in BriefingOf(CurUser(j), Today) : b.briefing_data \in Jobs \ {j}

(* C6: a run of daily_briefing_job that selected its subjects ends only    *)
(* after every selected subject was processed: a failure at any step of    *)
(* one subject is caught for that subject and the loop goes on.            *)
C6_FailureIsolated ==
    \A j \in Jobs :
        (job[j].pc = "done" /\ job[j].users # <<>>)
            => job[j].idx = Len(job[j].users) + 1

(* C8: when two runs of the daily job race for one subject and date, the   *)
(* call of _generate_for_user whose insert hit the unique key returns      *)
(* True (success) while the stored row is the one of the other run.        *)
C8_ConflictRecovered ==
    \A j \in Jobs :
        ( /\ job[j].pc = "returned"
          /\ job[j].conflict
          /\ \E b \in BriefingOf(CurUser(j), job[j].today) :
                 b.briefing_data \in Jobs \ {j} )
            => job[j].result = TRUE

(* C11: there is at most one WeightEntry per (subject, date), and no step   *)
(* removes a stored entry, changes its weight or adds a second entry for   *)
(* its key, whatever weight a later fetch reports.                         *)
C11_WeightEntryStable ==
    [][ /\ \A w \in weights : w \in weights'
        /\ \A w1, w2 \in weights' :
               (w1.user_id = w2.user_id /\ w1.date = w2.date) => w1 = w2
      ]_vars

(* a run of the job holds a fetched weight that differs from the one       *)
(* stored for its subject today                                            *)
C11_Witness ==
    \E j \in Jobs :
        /\ job[j].pc = "weight"
        /\ job[j].weight > 0
        /\ \E w \in WeightOf(CurUser(j), Today) : w.weight_kg # job[j].weight

(* C12: when the nutrition fetch of a briefing operation (a call of        *)
(* _generate_for_user or of _generate_and_save) surfaced a weight greater  *)
(* than zero, a WeightEntry for (subject, today) exists when the operation *)
(* finishes with its briefing (returns True, or returns the row).          *)
C12_WeightRecorded ==
    [][ /\ \A j \in Jobs :
               ( /\ job[j].pc # "returned"
                 /\ job'[j].pc = "returned"
                 /\ job'[j].result
                 /\ job[j].weight > 0 )
               => \E w \in weights' : w.user_id = CurUser(j) /\ w.date = Today
        /\ \A r \in Reqs :
               ( /\ req[r].pc # "done"
                 /\ req'[r].pc = "done"
                 /\ req'[r].status \in {"created", "existing"}
                 /\ req[r].weight > 0 )
               => \E w \in weights' : w.user_id = req[r].user /\ w.date = Today
      ]_vars

--------------------------------------------------------------------------
(* Claims about the workout reviews *)

Unreviewed(u) ==
    Cardinality({k \in 1..Min(Len(hevy[u]), FetchCount) :
                    ReviewOf(u, hevy[u][k].id) = {}})

(* C4, under SpecDetect: when the adapter answered and nothing failed, the *)
(* call for a subject ends with min(k, m) new rows, k being the number of  *)
(* fetched sessions that had no review when the call began.                *)
C4_BoundedGeneration ==
    (rv.pc = "userdone" /\ rv.fetched /\ ~rv.failed)
        => rv.generated = Min(Unreviewed(RvUser) + rv.generated, DefaultMaxNewReviews)

(* C5, under LiveDetect (the job runs every hour, the adapter keeps        *)
(* answering with the same list, nothing fails): eventually every session  *)
(* of every account has a review.                                          *)
C5_EventuallyAllReviewed ==
    <>(\A u \in Users : \A k \in DOMAIN hevy[u] : ReviewOf(u, hevy[u][k].id) # {})

(* C13, under SpecDetect: every session the adapter returned to the job    *)
(* carries the external id of the upstream session, so the job's key       *)
(* (subject, external session id) is not empty.                            *)
C13_SessionsCarryId ==
    (rv.pc = "loop" /\ rv.fetched) =>
        \A k \in DOMAIN rv.workouts :
            /\ Get(rv.workouts[k], "id", "") # ""
            /\ Get(rv.workouts[k], "id", "") = hevy[RvUser][k].id

--------------------------------------------------------------------------
(* Claims about the aggregator, checked under SpecAgg *)

NutritionTried == agg.yazio_email /\ agg.yazio_password

(* the nutrition side raises before yesterday's summary is assigned *)
NutritionRaisesEarly ==
    NutritionTried /\ (agg.decrypt_yazio = "raise" \/ agg.fetch_yesterday = "raise")

(* only the fetch of today's summary raises *)
NutritionRaisesLate ==
    /\ NutritionTried
    /\ ~NutritionRaisesEarly
    /\ agg.include_today_nutrition
    /\ agg.fetch_today = "raise"

TrainingSucceeds ==
    /\ agg.hevy_api_key
    /\ agg.decrypt_hevy = "ok"
    /\ agg.fetch_workouts \in {"list", "empty"}

TrainingFails ==
    /\ agg.hevy_api_key
    /\ (agg.decrypt_hevy = "raise" \/ agg.fetch_workouts \in {"raise", "None"})

(* C9 as stated: no call ends in an exception; whenever the nutrition side *)
(* raises and the training side succeeds the context has yazio = None and  *)
(* hevy = the fetched list; a training failure leaves the nutrition data.  *)
C9_Original ==
    /\ agg.pc # "raised"
    /\ agg.pc = "returned" =>
         /\ ((NutritionRaisesEarly \/ NutritionRaisesLate) /\ TrainingSucceeds)
               => (agg.yazio = "None" /\ agg.hevy = agg.fetch_workouts)
         /\ (TrainingFails /\ NutritionTried /\ ~NutritionRaisesEarly)
               => (agg.hevy = "None" /\ agg.yazio = agg.fetch_yesterday)

(* C9 as amended: no call ends in an exception; when the nutrition side    *)
(* raises before yesterday's summary is assigned (a decryption or the      *)
(* first fetch) and the training side succeeds, yazio = None and hevy =    *)
(* the fetched list; when only the fetch of today's summary raises, yazio  *)
(* keeps yesterday's summary and yazio_today = None; a training failure    *)
(* leaves the nutrition data in place.                                     *)
C9_PartialSource ==
    /\ agg.pc # "raised"
    /\ agg.pc = "returned" =>
         /\ (NutritionRaisesEarly /\ TrainingSucceeds)
               => (agg.yazio = "None" /\ agg.yazio_today = "None"
                   /\ agg.hevy = agg.fetch_workouts)
         /\ NutritionRaisesLate
               => (agg.yazio = agg.fetch_yesterday /\ agg.yazio_today = "None")
         /\ (NutritionRaisesLate /\ TrainingSucceeds)
               => agg.hevy = agg.fetch_workouts
         /\ (TrainingFails /\ NutritionTried /\ ~NutritionRaisesEarly)
               => (agg.hevy = "None" /\ agg.yazio = agg.fetch_yesterday)

(* the first nutrition fetch raised, the training fetch returned its list, *)
(* and the call returned                                                   *)
C9_Witness ==
    /\ agg.pc = "returned"
    /\ NutritionTried
    /\ agg.decrypt_yazio = "ok"
    /\ agg.fetch_yesterday = "raise"
    /\ agg.fetch_workouts = "list"
    /\ TrainingSucceeds
    /\ agg.hevy = "list"

--------------------------------------------------------------------------
(* Claims about the generation functions, checked under SpecGen *)

FallbackOf(kind) ==
    IF kind = "briefing" THEN FALLBACK_BRIEFING
    ELSE IF kind = "review" THEN FALLBACK_SESSION_REVIEW
    ELSE FALLBACK_WORKOUT_TIPS

(* C10: whatever the generation service answers, the payload a generation  *)
(* function returns holds every key of the fallback payload of its kind    *)
(* (every failure of the service is caught inside the function, so the     *)
(* call always returns).                                                   *)
C10_AllFallbackKeys ==
    gen.pc = "returned" =>
        DOMAIN FallbackOf(gen.kind) \subseteq DOMAIN gen.result

--------------------------------------------------------------------------
(* Claims about ownership, checked under SpecOwn *)

(* C14: every MorningBriefing, WorkoutReview and WeightEntry row           *)
(* references a subject that exists; after a subject is deleted no row of  *)
(* it remains.                                                             *)
C14_NoOrphans ==
    /\ \A b \in briefings : b.user_id \in users
    /\ \A r \in reviews : r.user_id \in users
    /\ \A w \in weights : w.user_id \in users

(* the first subject, which had a weight entry, was deleted while the run  *)
(* of the daily job is about to insert its briefing                        *)
C14_Witness ==
    /\ "u1" \notin users
    /\ job["job1"].pc = "insert"
    /\ CurUser("job1") = "u1"

--------------------------------------------------------------------------
(* Claims about the two jobs, checked under LiveJobs *)

--------------------------------------------------------------------------
(* Claims about the order of the reviews and the coaching memory *)

SameNameRows == {r \in reviews : r.user_id = RvUser /\ r.workout_name = rv.name}

--------------------------------------------------------------------------
(* Claims about the analytics *)

(* the active weeks and the current week as positions on the line of all   *)
(* ISO weeks                                                               *)
WeekNo(w) == WeeksBefore(w[1]) + w[2]

ActiveNos == {WeekNo(w) : w \in calc.active_weeks}

(* the length of the run of consecutive active weeks that ends at week n *)
RunEndingAt(n) ==
    CHOOSE len \in 0..Cardinality(ActiveNos) :
        /\ \A k \in 0..(len - 1) : (n - k) \in ActiveNos
        /\ (n - len) \notin ActiveNos

(* C19, under SpecStreak: current_streak is the length of the run of       *)
(* consecutive active ISO weeks that ends at the current week (0 when the  *)
(* current week is not active), longest_streak the length of the longest   *)
(* run of consecutive active ISO weeks, also across the turn of an ISO     *)
(* year.                                                                   *)
C19_Streaks ==
    calc.pc = "returned" =>
        /\ calc.result.current_streak = RunEndingAt(WeekNo(calc.current_week))
        /\ \A n \in ActiveNos : RunEndingAt(n) <= calc.result.longest_streak
        /\ \/ ActiveNos = {} /\ calc.result.longest_streak = 0
           \/ \E n \in ActiveNos : RunEndingAt(n) = calc.result.longest_streak

(* the example of the claim laid over the turn of 2020: weeks W1, W3, W4,  *)
(* W5 of the window are active, the current week is W5                     *)
C19_Witness ==
    /\ calc.pc = "returned"
    /\ calc.active_weeks = {<<2020, 51>>, <<2020, 53>>, <<2021, 1>>, <<2021, 2>>}
    /\ calc.current_week = <<2021, 2>>
    /\ calc.result.current_streak = 3
    /\ calc.result.longest_streak = 3

(* the milestone targets of the source, by id *)
MilestoneTargets ==
    {<<"first_workout", 1>>, <<"10_workouts", 10>>, <<"25_workouts", 25>>,
     <<"50_workouts", 50>>, <<"100_workouts", 100>>, <<"200_workouts", 200>>}

(* C20, under SpecAchievements: for every workout-count milestone with     *)
(* target T and every number n of completed sessions, the achievement has  *)
(* target T, progress n below T and T from T on, and is unlocked exactly   *)
(* from n = T on; with 10 sessions the 10-session milestone shows progress *)
(* 10 and is unlocked, with 9 it is locked.                                *)
C20_Milestones ==
    calc.pc = "returned" =>
        LET n == Len(calc.workouts) IN
        /\ {<<calc.result[m].id, calc.result[m].target>> : m \in DOMAIN calc.result}
               = MilestoneTargets
        /\ \A m \in DOMAIN calc.result :
              LET a == calc.result[m] IN
              /\ a.progress = (IF n < a.target THEN n ELSE a.target)
              /\ a.unlocked = ~(n < a.target)
        /\ \A m \in DOMAIN calc.result :
              calc.result[m].id = "10_workouts" =>
                  /\ n = 10 => (calc.result[m].progress = 10 /\ calc.result[m].unlocked)
                  /\ n = 9 => (calc.result[m].progress = 9 /\ ~calc.result[m].unlocked)

(* exactly 10 sessions: the 10-session milestone is unlocked, the          *)
(* 25-session milestone is not                                             *)
C20_Witness ==
    /\ calc.pc = "returned"
    /\ Len(calc.workouts) = 10
    /\ calc.result[2].unlocked
    /\ calc.result[2].progress = 10
    /\ ~calc.result[3].unlocked

(* C21, under SpecCatalogue: for every input and every entry that          *)
(* compute_achievements returns, unlocked is true exactly when the         *)
(* reported progress is greater than or equal to the reported target,      *)
(* also when the measured value lies just below the target.                *)
C21_UnlockedIffProgress ==
    calc.pc = "returned" =>
        \A m \in DOMAIN calc.result :
            calc.result[m].unlocked <=> (calc.result[m].progress >= calc.result[m].target)

(* the ids of the milestone definitions, in the order of the source *)
CatalogueIds ==
    [m \in DOMAIN workout_milestones |-> workout_milestones[m].id]
    \o [m \in DOMAIN vol_milestones |-> vol_milestones[m].id]
    \o [m \in DOMAIN strength_targets |-> strength_targets[m].id]
    \o [m \in DOMAIN nutrition_milestones |-> nutrition_milestones[m].id]
    \o [m \in DOMAIN prot_milestones |-> prot_milestones[m].id]
    \o [m \in DOMAIN streak_milestones |-> streak_milestones[m].id]
    \o [m \in DOMAIN weight_milestones |-> weight_milestones[m].id]
    \o [m \in DOMAIN variety_milestones |-> variety_milestones[m].id]

(* C29, under SpecCatalogue: for every input compute_achievements returns  *)
(* exactly one entry for each definition of the catalogue, in the fixed    *)
(* order of the ids, however many weight entries are supplied.             *)
C29_FixedCatalogue ==
    calc.pc = "returned" =>
        [m \in DOMAIN calc.result |-> calc.result[m].id] = CatalogueIds

(* the paired points of the returned result, their carbs and volumes *)
Points == calc.result.data_points

CarbsOf(points) == [i \in DOMAIN points |-> points[i].prev_day_carbs]

VolumesOf(points) == [i \in DOMAIN points |-> points[i].volume]

(* the carb split of the claim: a point is in the high group exactly when  *)
(* its carbs are strictly above the mean, in the low group otherwise       *)
CarbSplit ==
    LET high == calc.result.high_carb_sessions
        low == calc.result.low_carb_sessions
    IN /\ \A i \in DOMAIN Points :
              /\ (Points[i] \in Range(high))
                     <=> (Points[i].prev_day_carbs * Len(Points)
                              > SumOf(Points, "prev_day_carbs"))
              /\ (Points[i] \in Range(low)) <=> (Points[i] \notin Range(high))
       /\ Len(high) + Len(low) = Len(Points)

(* numerator and denominator of (mean high - mean low) / mean low *)
CarbNum ==
    SumOf(calc.result.high_carb_sessions, "volume") * Len(calc.result.low_carb_sessions)
    - SumOf(calc.result.low_carb_sessions, "volume") * Len(calc.result.high_carb_sessions)

CarbDen ==
    SumOf(calc.result.low_carb_sessions, "volume") * Len(calc.result.high_carb_sessions)

CarbVolumeInsights ==
    {i \in DOMAIN calc.result.insights : calc.result.insights[i].type = "carb_volume"}

ClaimExample ==
    /\ CarbsOf(Points) = <<50, 50, 200, 200>>
    /\ VolumesOf(Points) = <<10000, 10000, 20000, 20000>>

(* C22 as stated: the split is by the strict mean, and the reported volume *)
(* difference is (mean volume of high - mean volume of low) / mean volume  *)
(* of low * 100.                                                           *)
C22_Original ==
    (calc.pc = "returned" /\ Len(Points) >= 2) =>
        /\ CarbSplit
        /\ \A i \in CarbVolumeInsights :
              calc.result.insights[i].diff_percent * CarbDen = CarbNum * 1000

(* C22 as amended, under SpecCorrelation: the split is by the strict mean, *)
(* the groups are disjoint and cover all points; a volume difference is    *)
(* reported exactly when both groups are non-empty and the mean volume of  *)
(* low is positive, and it is (mean high - mean low) / mean low * 100      *)
(* rounded to one decimal; carbs [50,50,200,200] with volumes              *)
(* [1000,1000,2000,2000] give low = {50,50}, high = {200,200} and +100%.   *)
C22_CarbSplit ==
    (calc.pc = "returned" /\ Len(Points) >= 2) =>
        /\ CarbSplit
        /\ Cardinality(CarbVolumeInsights) =
              (IF /\ calc.result.high_carb_sessions # <<>>
                  /\ calc.result.low_carb_sessions # <<>>
                  /\ SumOf(calc.result.low_carb_sessions, "volume") > 0
               THEN 1 ELSE 0)
        /\ \A i \in CarbVolumeInsights :
              LET off == calc.result.insights[i].diff_percent * CarbDen - CarbNum * 1000
              IN 2 * off <= CarbDen /\ 2 * off >= 0 - CarbDen
        /\ ClaimExample =>
              /\ CarbsOf(calc.result.low_carb_sessions) = <<50, 50>>
              /\ CarbsOf(calc.result.high_carb_sessions) = <<200, 200>>
              /\ \E i \in CarbVolumeInsights :
                     calc.result.insights[i].diff_percent = 1000

(* the example of the claim was computed *)
C22_Witness ==
    /\ calc.pc = "returned"
    /\ ClaimExample
    /\ calc.result.insights # <<>>

(* the sessions of the input that have a date and a record of the day      *)
(* before                                                                  *)
Paired ==
    {k \in DOMAIN calc.workouts :
        /\ calc.workouts[k].start_time # NoDate
        /\ (calc.workouts[k].start_time - 1) \in DOMAIN calc.nutrition_by_date}

(* C23, under SpecCorrelation: a session is paired only with the nutrition *)
(* record of the calendar day before its date, and sessions without such a *)
(* record are dropped; with fewer than 2 paired points no insights are     *)
(* returned, and has_enough_data is true exactly when there are at least 3 *)
(* paired points.                                                          *)
C23_Pairing ==
    calc.pc = "returned" =>
        /\ Len(Points) = Cardinality(Paired)
        /\ calc.result.total_correlated_workouts = Cardinality(Paired)
        /\ \A i \in DOMAIN Points :
              \E k \in Paired :
                  /\ Points[i].workout_date = calc.workouts[k].start_time
                  /\ Points[i].prev_day_carbs
                         = calc.nutrition_by_date[calc.workouts[k].start_time - 1].carbs
                  /\ Points[i].prev_day_calories
                         = calc.nutrition_by_date[calc.workouts[k].start_time - 1].calories
        /\ Cardinality(Paired) < 2 => calc.result.insights = <<>>
        /\ calc.result.has_enough_data <=> Cardinality(Paired) >= 3

(* an input of four sessions of which one has no record of the day before  *)
(* and one has no date: two points are paired, insights are returned and   *)
(* the data is flagged as not enough                                       *)
C23_Witness ==
    /\ calc.pc = "returned"
    /\ Len(calc.workouts) = 4
    /\ Cardinality(Paired) = 2
    /\ \E k \in DOMAIN calc.workouts : calc.workouts[k].start_time = NoDate
    /\ \E k \in DOMAIN calc.workouts :
           /\ calc.workouts[k].start_time # NoDate
           /\ k \notin Paired
    /\ calc.result.insights # <<>>
    /\ ~calc.result.has_enough_data

(* the data points of all series of the returned result *)
AllPoints ==
    UNION {Range(calc.result[n].data_points) : n \in DOMAIN calc.result}

SessionsWith(name) ==
    {k \in DOMAIN calc.workouts :
        \E e \in DOMAIN calc.workouts[k].exercises :
            /\ calc.workouts[k].exercises[e].title = name
            /\ \E s \in Range(calc.workouts[k].exercises[e].sets) : Counted(s)}

(* the greatest e1rm numerator over all sets of the exercise in session k *)
IsBestOfSession(p, name, k) ==
    /\ \E e \in DOMAIN calc.workouts[k].exercises :
           /\ calc.workouts[k].exercises[e].title = name
           /\ p.best_set \in Range(calc.workouts[k].exercises[e].sets)
    /\ \A e \in DOMAIN calc.workouts[k].exercises :
           calc.workouts[k].exercises[e].title = name =>
               \A s \in Range(calc.workouts[k].exercises[e].sets) :
                   Counted(s) => E1rm(s.weight_kg, s.reps)
                                     <= E1rm(p.best_set.weight_kg, p.best_set.reps)

(* C30, under SpecOverload: the series of every exercise name holds at     *)
(* most one data point per session, that point being the session's best    *)
(* set by e1RM over all sets of the exercise in the session, and           *)
(* sessions_count, by which the result is sorted descending, is the number *)
(* of sessions in which the exercise has a set with weight > 0 and         *)
(* reps > 0, also when the name occurs more than once in one session.      *)
C30_OnePointPerSession ==
    calc.pc = "returned" =>
        /\ \A n \in DOMAIN calc.result :
              LET series == calc.result[n] IN
              /\ \A a, b \in DOMAIN series.data_points :
                     a # b => series.data_points[a].date # series.data_points[b].date
              /\ \A a \in DOMAIN series.data_points :
                     \E k \in SessionsWith(series.name) :
                         /\ calc.workouts[k].start_time = series.data_points[a].date
                         /\ IsBestOfSession(series.data_points[a], series.name, k)
              /\ series.sessions_count = Cardinality(SessionsWith(series.name))
        /\ \A n, m \in DOMAIN calc.result :
              n < m => calc.result[n].sessions_count >= calc.result[m].sessions_count

(* C25, under SpecClock: two invocations of an analytics function with     *)
(* identical arguments return identical results, whatever the calendar     *)
(* date of each invocation.                                                *)
C25_Deterministic ==
    calc.pc = "twice" => calc.first = calc.second

TrackedDates == {calc.result[n].date : n \in DOMAIN calc.result}

(* C28 as stated: at most 5 requests are in flight at any moment, each of  *)
(* the dates is probed exactly once, a failing probe does not abort the    *)
(* others, and the result holds exactly the dates whose logged calories    *)
(* are greater than 0.                                                     *)
C28_Original ==
    /\ Cardinality(InFlight) <= 5
    /\ \A k \in DOMAIN calc.probes : calc.probes[k] <= 1
    /\ calc.pc = "returned" =>
          /\ \A k \in DOMAIN calc.probes : calc.probes[k] = 1
          /\ TrackedDates = {calc.today - (k - 1) : k \in {j \in 1..calc.days :
                                                         calc.logged[j].calories > 0}}

(* C28 as amended, under SpecProbe: at most 5 requests are in flight at    *)
(* any moment and no date is probed twice; after a successful login every  *)
(* one of the dates is probed exactly once, whatever probes fail, and the  *)
(* result holds, from today backwards, exactly the dates whose probe was   *)
(* answered with status 200 and calories greater than 0; after a failed    *)
(* login nothing is probed and the result is empty.                        *)
C28_ThrottledProbing ==
    /\ Cardinality(InFlight) <= 5
    /\ \A k \in DOMAIN calc.probes : calc.probes[k] <= 1
    /\ (calc.pc = "returned" /\ calc.token) =>
          /\ \A k \in DOMAIN calc.probes : calc.probes[k] = 1
          /\ TrackedDates = {calc.today - (k - 1) : k \in {j \in 1..calc.days :
                                 calc.task[j] = "ok" /\ calc.logged[j].calories > 0}}
          /\ \A n, m \in DOMAIN calc.result :
                 n < m => calc.result[n].date > calc.result[m].date
    /\ (calc.pc = "returned" /\ ~calc.token) =>
          /\ \A k \in DOMAIN calc.probes : calc.probes[k] = 0
          /\ calc.result = <<>>

(* five requests are in flight and a sixth date waits for the semaphore *)
C28_Witness ==
    /\ calc.pc = "gather"
    /\ Cardinality(InFlight) = 5
    /\ \E k \in DOMAIN calc.task : calc.task[k] = "pending"

=============================================================================
